---- MODULE Spec2Model ----
(***************************************************************************)
(* SolarShare: the per-tick simulation and market-clearing engine.         *)
(*                                                                         *)
(* simulation_engine.py is not among the source files; the engine is       *)
(* modelled from the formulas and listings of src/README.md (Battery       *)
(* Storage Formulas, Trading System, Role Assignment, Crisis Events,       *)
(* Metrics Calculation) and, where the README is silent (the shape of the  *)
(* matching loop, the reduction of a trade to the feasible amount, the     *)
(* crisis guard, the order of the phases), from spec.md sections 4 and 5.  *)
(*                                                                         *)
(* Units.  Energy is counted in hundredths of a kWh (1 = 0.01 kWh), prices *)
(* in cents per kWh and stored_energy_pct in tenths of a percent           *)
(* (1000 = 100%).  The battery sizes used are 10, 1 and 5 kWh, for which   *)
(* the conversions between percent and kWh are exact; the products with    *)
(* the round factors 0.6, 0.8, 0.4 are rounded down to 0.01 kWh.           *)
(*                                                                         *)
(* The dashboard (src/unnamed/part_000, class SolarShareDashboard) is      *)
(* modelled from its code: the object's fields and the texts of the page   *)
(* are the variable dashboard, the WebSockets it has created, the interval *)
(* timers it has set and the reachability of the server are browser.       *)
(* The metrics test page (src/unnamed/part_001) is the variable test_page. *)
(***************************************************************************)
EXTENDS Integers, Sequences, FiniteSets

VARIABLES
    tick,               \* number of ticks started
    pc,                 \* phase of the current tick
    stored_energy_pct,  \* household -> state of charge (tenths of a percent)
    net_energy,         \* household -> solar - demand of the tick (0.01 kWh)
    role,               \* household -> "seller" | "buyer" | "idle"
    trades,             \* the tick's trade list
    supply,             \* aggregate supply computed before the first round
    demand,             \* aggregate demand computed before the first round
    price,              \* the tick price
    need,               \* buyer -> remaining need (0.01 kWh)
    round,              \* current matching round (0 outside matching)
    seller_order,       \* sellers as sorted at the start of the round
    buyer_order,        \* buyers as sorted at the start of the round
    bi,                 \* index of the buyer being served
    si,                 \* index of the seller being tried
    round_trades,       \* number of trades the current round has made
    last,               \* the last matching attempt: candidate and outcome
    snapshot,           \* the last published TickSnapshot
    scenario,           \* the configuration the engine was constructed with
    hour,               \* hour of day (0-23) of the tick in progress
    crises,             \* the crisis events that are active
    metrics,            \* CommunityMetrics, threaded from tick to tick
    phase_log,          \* the phases completed in the tick in progress
    ledger,             \* trades.csv: every trade of every published tick
    state_log,          \* household_state.json: one entry per published tick
    household,          \* household -> energy_demand and behavioural flags
    dashboard,          \* the SolarShareDashboard object and what its page shows
    browser,            \* the page's sockets and timers, and the server behind them
    test_page           \* the metrics test page: its script's globals and timers

vars == <<tick, pc, stored_energy_pct, net_energy, role, trades, supply,
          demand, price, need, round, seller_order, buyer_order, bi, si,
          round_trades, last, snapshot, scenario, hour, crises, metrics, phase_log,
          ledger, state_log, household, dashboard, browser, test_page>>

\* ------------------------------------------------------------------ bounds

MaxTicks == 2

\* the MetricsEngine on its own: up to MaxHouseholds households and up to
\* MaxTrades trades in the tick
MaxHouseholds == 3
MaxTrades == 6

\* --------------------------------------------------------------- constants

\* MINIMUM_RESERVE = 20%, in tenths of a percent
MINIMUM_RESERVE == 200
\* a full battery, 100%, in tenths of a percent
FULL == 1000
\* trading configuration defaults, prices in cents, energy in 0.01 kWh
min_price == 10
max_price == 20
max_trading_rounds == 3
max_trade_size_first == 200
max_trade_size_later == 100
min_trade_size == 5

\* ------------------------------------------------------------ households

\* three households in the community; the two households H1 and H2 of the
\* end-to-end scenario; the households handed to the MetricsEngine when it is
\* run on its own
Households ==
    IF scenario = "end_to_end" THEN 1 .. 2
    ELSE IF scenario = "metrics" THEN DOMAIN stored_energy_pct
    ELSE 1 .. 3

\* battery_size of each household, in 0.01 kWh: 10 kWh, 1 kWh, 5 kWh
battery_size(h) == CASE h = 1 -> 1000 [] h = 2 -> 100 [] OTHER -> 500

\* initial_battery_level (0.0 to 1.0) of each household as a percentage, in
\* tenths of a percent
InitLevels(h) ==
    CASE h = 1 -> {100, 220, 350, 650} [] h = 2 -> {0, 800} [] OTHER -> {220, 800}

\* net_energy = solar_generation - energy_demand a household can have in a
\* tick, in 0.01 kWh
NetValues(h) ==
    CASE h = 1 -> {-200, 0, 150} [] h = 2 -> {-300, 0} [] OTHER -> {-40, 250}

Min(a, b) == IF a <= b THEN a ELSE b
Max(a, b) == IF a >= b THEN a ELSE b
Abs(x) == IF x < 0 THEN -x ELSE x

\* (energy / battery_size) x 100, in tenths of a percent
PctOf(kwh, battery) == (kwh * 1000) \div battery
\* (percentage / 100) x battery_size, in 0.01 kWh
KwhOf(pct, battery) == (pct * battery) \div 1000

\* ---------------------------------------------------------- WeatherEngine

\* the simulation hour is an hour of the day, 0-23
HOURS_PER_DAY == 24
NextHour(h) == (h + 1) % HOURS_PER_DAY

\* duration: 3 - 6 hours
crisis_min_duration == 3
crisis_max_duration == 6
Durations == crisis_min_duration .. crisis_max_duration

\* CrisisEvent(start_hour: current_hour, end_hour: start_hour + duration)
NewCrisis(current_hour, duration) ==
    [start_hour |-> current_hour, end_hour |-> current_hour + duration]

\* a crisis clears automatically once the current hour >= end_hour
Expired(crisis, current_hour) == current_hour >= crisis.end_hour

\* mutant: the trigger is applied whether or not a crisis is active
CanTriggerAlways(active) == TRUE

\* a new crisis is triggered only while no crisis is active
CanTrigger(active) == active = {}

\* The crisis lifecycle of one tick: expired crises are cleared, then the
\* random trigger is applied.
Weather(active, current_hour, trigger, duration) ==
    LET remaining == {c \in active : ~Expired(c, current_hour)}
    IN  IF trigger /\ CanTrigger(remaining)
        THEN remaining \cup {NewCrisis(current_hour, duration)}
        ELSE remaining

\* the outcomes of the random trigger draw: the crisis probability is
\* positive in the "weather" scenario and zero in the others
TriggerDraws == IF scenario = "weather" THEN BOOLEAN ELSE {FALSE}

\* solar_radiation = max(200, cos((hour - 12) x pi / 15) x 800) + noise in
\* the daylight hours, 0 at night; the cosine in thousandths
CosPerMille(k) ==
    CASE k = 0 -> 1000 [] k = 1 -> 978 [] k = 2 -> 914 [] k = 3 -> 809
      [] k = 4 -> 669 [] k = 5 -> 500 [] OTHER -> 309
max_solar_radiation == 800
RadiationNoise == {-30, 0, 30}
SolarRadiation(h, noise) ==
    IF h >= 6 /\ h < 18
    THEN Max(200, (CosPerMille(Abs(h - 12)) * max_solar_radiation) \div 1000) + noise
    ELSE 0

\* clouds_base = 25%
clouds_base == 25

\* --------------------------------------------------------- HouseholdModel

\* time_factor = max(0, 1 - abs(12 - hour) / 6), in sixths
TimeFactor(h) == Max(0, 6 - Abs(12 - h))

\* cloud_impact = random(0.6, 0.8), in thousandths
CloudImpacts == {600, 700, 800}

\* weather_factor = max(0.4, (1 - clouds/100 x cloud_impact) x radiation_boost)
\* with radiation_boost = min(1.1, solar_radiation / 600), in thousandths
WeatherFactor(clouds, cloud_impact, solar_radiation) ==
    LET radiation_boost == Min(1100, (solar_radiation * 1000) \div 600)
    IN  Max(400, ((1000 - (clouds * cloud_impact) \div 100) * radiation_boost) \div 1000)

\* solar_generation = solar_capacity x weather_factor x time_factor
\*                    x orientation_factor x crisis_factor
\* (capacity in 0.01 kW, the orientation and crisis factors in thousandths;
\* each product is rounded down to 0.01 kWh)
SolarGeneration(capacity, h, clouds, cloud_impact, solar_radiation, orientation_factor, crisis_factor) ==
    LET clear_sky == (capacity * WeatherFactor(clouds, cloud_impact, solar_radiation)
                        * TimeFactor(h)) \div 6000
        oriented == (clear_sky * orientation_factor) \div 1000
    IN  (oriented * crisis_factor) \div 1000

\* The end-to-end scenario: H1 has 4 kW of solar and a demand of 0.5, 1.5 or
\* 2.5 kWh, H2 has no solar and a demand of 2 kWh; panels face south (1.0)
\* and there is no crisis (1.0).
solar_capacity(h) == IF h = 1 THEN 400 ELSE 0
ScenarioDemand(h) == IF h = 1 THEN {50, 150, 250} ELSE {200}

\* net_energy = solar_generation - energy_demand: the values it can take in
\* the tick at hand
NetChoices(h) ==
    IF scenario = "end_to_end"
    THEN {SolarGeneration(solar_capacity(h), hour, clouds_base, cloud_impact,
                          SolarRadiation(hour, noise), 1000, 1000) - energy_demand :
             cloud_impact \in CloudImpacts, noise \in RadiationNoise,
             energy_demand \in ScenarioDemand(h)}
    ELSE NetValues(h)

\* Charging (excess energy)
Charge(stored, excess_energy, battery) ==
    LET available_capacity_percentage == FULL - stored
        max_storable_kwh == KwhOf(available_capacity_percentage, battery)
        energy_to_store == Min(excess_energy, max_storable_kwh)
        storage_gain_percentage == PctOf(energy_to_store, battery)
    IN  stored + storage_gain_percentage

\* mutant: the battery is drawn down to the reserve only
DischargeToReserve(stored, energy_needed, battery) ==
    LET available_stored_kwh == KwhOf(Max(0, stored - MINIMUM_RESERVE), battery)
        energy_from_storage == Min(energy_needed, available_stored_kwh)
    IN  stored - PctOf(energy_from_storage, battery)

\* Discharging (energy deficit)
Discharge(stored, energy_needed, battery) ==
    LET available_stored_kwh == KwhOf(stored, battery)
        energy_from_storage == Min(energy_needed, available_stored_kwh)
        storage_loss_percentage == PctOf(energy_from_storage, battery)
    IN  stored - storage_loss_percentage

\* stored_energy_pct is clamped to [0,100] after each operation
Clamp(pct) == Max(0, Min(FULL, pct))

\* mutant: the surplus or deficit is applied without the capacity limits
UpdateBatteryUnlimited(stored, net, battery) == stored + PctOf(net, battery)

UpdateBattery(stored, net, battery) ==
    IF net > 0 THEN Clamp(Charge(stored, net, battery))
    ELSE IF net < 0 THEN Clamp(Discharge(stored, -net, battery))
    ELSE stored

\* mutant: the buyer test is made before the seller test
UpdateRoleBuyerFirst(stored, net) ==
    IF net < 0 /\ stored < FULL THEN "buyer"
    ELSE IF stored > MINIMUM_RESERVE THEN "seller"
    ELSE "idle"

\* _update_role: ordered, first match wins
UpdateRole(stored, net) ==
    IF stored > MINIMUM_RESERVE THEN "seller"
    ELSE IF net < 0 /\ stored < FULL THEN "buyer"
    ELSE "idle"

\* ----------------------------------------------------------- MarketEngine

\* mutant: every household with a deficit and room in its battery buys,
\* whatever its role
BuyersByDeficit(st, r) == {h \in Households : st[h] < FULL /\ net_energy[h] < 0}

\* Market formation: the seller and the buyer collection of the tick
Sellers(st, r) == {h \in Households : st[h] > MINIMUM_RESERVE /\ r[h] = "seller"}
Buyers(st, r) == {h \in Households : st[h] < FULL /\ r[h] = "buyer"}

RECURSIVE SumOver(_, _)
SumOver(f, S) ==
    IF S = {} THEN 0
    ELSE LET h == CHOOSE x \in S : TRUE IN f[h] + SumOver(f, S \ {h})

\* mutant: the reserve is not subtracted
SellerAvailableNoReserve(stored, battery) == KwhOf(stored, battery)

\* seller_available_kwh = ((stored_energy - 20.0) / 100.0) x battery
SellerAvailable(stored, battery) == KwhOf(stored - MINIMUM_RESERVE, battery)

\* mutant: percentage points are summed, not kWh
SupplyInPercent(st, S) ==
    SumOver([h \in Households |-> (st[h] - MINIMUM_RESERVE) \div 10], S)

\* supply = sum of (seller.stored_energy - 20) / 100 x seller.battery
Supply(st, S) ==
    SumOver([h \in Households |-> SellerAvailable(st[h], battery_size(h))], S)

\* demand = sum of abs(min(0, buyer.net_energy))
Demand(net, B) == SumOver([h \in Households |-> Abs(Min(0, net[h]))], B)

\* the balanced-market price of the pricing listing, in cents
MID_PRICE == 15

\* mutant: the ratio is formed as demand / supply
TickPriceInverted(s, d) ==
    IF d * 10 > 15 * s THEN min_price
    ELSE IF d * 10 > 8 * s THEN MID_PRICE
    ELSE max_price

\* mutant: the tiers are tested with the thresholds exchanged
TickPriceSwapped(s, d) ==
    IF s * 10 > 8 * d THEN min_price
    ELSE IF s * 10 > 15 * d THEN MID_PRICE
    ELSE max_price

\* Dynamic pricing from supply_demand_ratio = supply / demand (demand > 0):
\* ratio > 1.5, ratio > 0.8, otherwise
TickPrice(s, d) ==
    IF s * 10 > 15 * d THEN min_price
    ELSE IF s * 10 > 8 * d THEN MID_PRICE
    ELSE max_price

\* NoTradeCondition: zero sellers, zero buyers or demand = 0
NoTradeCondition(S, B, d) == S = {} \/ B = {} \/ d = 0

\* Sort sellers descending by stored_energy_pct; the sort is stable, so equal
\* keys keep the order of the household list.
SellerBefore(st, a, b) == st[a] > st[b] \/ (st[a] = st[b] /\ a < b)

\* Sort buyers ascending by stored_energy_pct, then descending |net_energy|
BuyerBefore(st, net, a, b) ==
    \/ st[a] < st[b]
    \/ st[a] = st[b] /\ Abs(net[a]) > Abs(net[b])
    \/ st[a] = st[b] /\ Abs(net[a]) = Abs(net[b]) /\ a < b

SortSellers(S, st) ==
    CHOOSE q \in [1 .. Cardinality(S) -> S] :
        \A i, j \in 1 .. Cardinality(S) : i < j => SellerBefore(st, q[i], q[j])

\* mutant: the buyers are sorted by deficit first, then by stored energy
SortBuyersByDeficit(B, st, net) ==
    CHOOSE q \in [1 .. Cardinality(B) -> B] :
        \A i, j \in 1 .. Cardinality(B) :
            i < j => \/ Abs(net[q[i]]) > Abs(net[q[j]])
                     \/ Abs(net[q[i]]) = Abs(net[q[j]]) /\ st[q[i]] < st[q[j]]
                     \/ Abs(net[q[i]]) = Abs(net[q[j]]) /\ st[q[i]] = st[q[j]]
                          /\ q[i] < q[j]

SortBuyers(B, st, net) ==
    CHOOSE q \in [1 .. Cardinality(B) -> B] :
        \A i, j \in 1 .. Cardinality(B) : i < j => BuyerBefore(st, net, q[i], q[j])

\* mutant: the caps of round 1 are used in every round
RoundCapFirstForAll(r, seller_available_kwh, buyer_need) ==
    Min((seller_available_kwh * 6) \div 10,
        Min((buyer_need * 8) \div 10, max_trade_size_first))

\* Round 1 (large trades) and subsequent rounds (small trades)
RoundCap(r, seller_available_kwh, buyer_need) ==
    IF r = 1
    THEN Min((seller_available_kwh * 6) \div 10,
             Min((buyer_need * 8) \div 10, max_trade_size_first))
    ELSE Min((seller_available_kwh * 4) \div 10,
             Min((buyer_need * 6) \div 10, max_trade_size_later))

\* amount = min(seller_available, buyer_remaining_need, round_cap)
Candidate(r, seller_available_kwh, buyer_need) ==
    Min(seller_available_kwh,
        Min(buyer_need, RoundCap(r, seller_available_kwh, buyer_need)))

\* what the buyer's battery can still take before 100%
BuyerHeadroom(stored, battery) == KwhOf(FULL - stored, battery)

\* A trade that would take the seller below the reserve or the buyer above
\* 100% is reduced to the feasible amount before the min_trade_size check.
Feasible(amount, seller_available_kwh, buyer_headroom) ==
    Min(amount, Min(seller_available_kwh, buyer_headroom))

\* mutant: any positive amount is traded
TradableIfPositive(amount) == amount > 0

\* Minimum trade size: amounts below it produce no trade
Tradable(amount) == amount >= min_trade_size

\* mutant: a tenth of the traded energy is lost on the way to the buyer
BuyerAfterWithLoss(stored, trade_amount, battery) ==
    stored + PctOf((trade_amount * 9) \div 10, battery)

\* Trade execution, for sellers and for buyers
SellerAfter(stored, trade_amount, battery) == stored - PctOf(trade_amount, battery)
BuyerAfter(stored, trade_amount, battery) == stored + PctOf(trade_amount, battery)

\* mutant: the round counter is compared with <=
RoundsLeftInclusive(r) == r <= max_trading_rounds

\* up to max_trading_rounds rounds are executed
RoundsLeft(r) == r < max_trading_rounds

\* a further round needs a seller with availability above the reserve and a
\* buyer with remaining need
BothRemain(st, remaining, S, B) ==
    /\ \E x \in S : SellerAvailable(st[x], battery_size(x)) > 0
    /\ \E y \in B : remaining[y] > 0

\* mutant: the price is computed again from the supply and the need that
\* remain when the trade is made
TradePriceRecomputed(tick_price, st, remaining, S, B) ==
    TickPrice(Supply(st, S), SumOver(remaining, B))

\* the price a trade record carries: the one tick price
TradePrice(tick_price, st, remaining, S, B) == tick_price

\* ---------------------------------------------------------- MetricsEngine
\* energy_traded in 0.01 kWh; cost_savings in hundredths of a cent;
\* co2_reduced in grams; resilience in thousandths of a point.

\* GRID_PRICE = $0.20/kWh, in cents per kWh
GRID_PRICE == 20
\* GRID_EMISSIONS = 0.5 kg CO2/kWh, in tenths of a kg per kWh
GRID_EMISSIONS == 5
\* the resilience score is given on 0-100, here in thousandths
RESILIENCE_MAX == 100000

RECURSIVE TotalKwh(_)
TotalKwh(ts) == IF ts = <<>> THEN 0 ELSE Head(ts).kwh + TotalKwh(Tail(ts))

\* mutant: only the trades of the tick at hand are summed
EnergyTradedThisTick(previous, ts) == TotalKwh(ts)

\* total_energy_traded = sum of trade.kwh for all trades: the previous
\* cumulative total plus the tick's trades
EnergyTraded(previous, ts) == previous + TotalKwh(ts)

\* cost_savings = total_energy_traded x GRID_PRICE
CostSavings(energy_traded) == energy_traded * GRID_PRICE

\* co2_reduced = total_energy_traded x GRID_EMISSIONS
Co2Reduced(energy_traded) == energy_traded * GRID_EMISSIONS

\* mutant: the score is the weighted sum without min(1.0, ...) on the
\* trading activity and without the clamp
ResilienceNoCaps(st, r, num_trades) ==
    LET num_households == Cardinality(Households)
        num_buyers == Cardinality({h \in Households : r[h] = "buyer"})
    IN  (SumOver(st, Households) * 50) \div num_households
        + num_trades * 6000
        + ((num_households - num_buyers) * 20000) \div num_households

\* Community Resilience Score, in thousandths of a point:
\* min(100, max(0, avg_stored_energy x 0.5 + min(1.0, num_trades / 5) x 30
\*                  + (1 - num_buyers / num_households) x 20))
Resilience(st, r, num_trades) ==
    LET num_households == Cardinality(Households)
        num_buyers == Cardinality({h \in Households : r[h] = "buyer"})
        storage == (SumOver(st, Households) * 50) \div num_households
        trading_activity == Min(5, num_trades) * 6000
        independence == ((num_households - num_buyers) * 20000) \div num_households
    IN  Min(RESILIENCE_MAX, Max(0, storage + trading_activity + independence))

\* delta_format: an explicit sign and the magnitude in steps of `step`
\* units (one decimal, or whole points for resilience), rounded
DeltaFormat(value, step) ==
    [sign |-> IF value >= 0 THEN "+" ELSE "-",
     magnitude |-> (2 * Abs(value) + step) \div (2 * step)]

ZeroMetrics ==
    [energy_traded |-> 0, cost_savings |-> 0, co2_reduced |-> 0, resilience |-> 0,
     delta_energy |-> DeltaFormat(0, 10), delta_savings |-> DeltaFormat(0, 1000),
     delta_co2 |-> DeltaFormat(0, 100), delta_resilience |-> DeltaFormat(0, 1000)]

\* CommunityMetrics of a tick from the previous cumulative metrics, the
\* tick's trades and the household states after the matching
ComputeMetrics(previous, ts, st, r) ==
    LET energy_traded == EnergyTraded(previous.energy_traded, ts)
        cost_savings == CostSavings(energy_traded)
        co2_reduced == Co2Reduced(energy_traded)
        resilience == Resilience(st, r, Len(ts))
    IN  [energy_traded |-> energy_traded,
         cost_savings |-> cost_savings,
         co2_reduced |-> co2_reduced,
         resilience |-> resilience,
         delta_energy |-> DeltaFormat(energy_traded - previous.energy_traded, 10),
         delta_savings |-> DeltaFormat(cost_savings - previous.cost_savings, 1000),
         delta_co2 |-> DeltaFormat(co2_reduced - previous.co2_reduced, 100),
         delta_resilience |-> DeltaFormat(resilience - previous.resilience, 1000)]

\* Replay: the metrics of the k-th recorded tick, recomputed from the trade
\* ledger and the household-state history alone
TradesAt(trade_ledger, timestamp) ==
    SelectSeq(trade_ledger, LAMBDA t : t.timestamp = timestamp)

RECURSIVE ReplayMetrics(_, _, _)
ReplayMetrics(trade_ledger, history, k) ==
    IF k = 0 THEN ZeroMetrics
    ELSE LET entry == history[k]
         IN  ComputeMetrics(
                 ReplayMetrics(trade_ledger, history, k - 1),
                 TradesAt(trade_ledger, entry.timestamp),
                 [h \in DOMAIN entry.households |-> entry.households[h].stored_energy_pct],
                 [h \in DOMAIN entry.households |-> entry.households[h].role])

\* mutant: the published entry carries the role recomputed from the state
\* the matching has left
HouseholdEntryFreshRole(h) ==
    [stored_energy_pct |-> stored_energy_pct[h],
     role |-> UpdateRole(stored_energy_pct[h], net_energy[h]),
     net_energy |-> net_energy[h]]

\* Household State Output: the entry of one household in a snapshot
HouseholdEntry(h) ==
    [stored_energy_pct |-> stored_energy_pct[h],
     role |-> role[h],
     net_energy |-> net_energy[h]]

\* mutant: the metrics are computed before the matching
NextPhaseMetricsFirst(p) ==
    CASE p = "weather" -> "household"
      [] p = "household" -> "role"
      [] p = "role" -> "metrics"
      [] p = "metrics" -> "market"
      [] p = "market" -> "publish"
      [] OTHER -> "weather"

\* the order of the phases of a tick
NextPhase(p) ==
    CASE p = "weather" -> "household"
      [] p = "household" -> "role"
      [] p = "role" -> "market"
      [] p = "market" -> "metrics"
      [] p = "metrics" -> "publish"
      [] OTHER -> "weather"

NoAttempt == [seller |-> 0, buyer |-> 0, candidate |-> 0, kwh |-> 0, executed |-> FALSE]
NoSnapshot ==
    [timestamp |-> 0, households |-> <<>>, trades |-> <<>>, metrics |-> ZeroMetrics]

\* -------------------------------------------------------------------- Init

\* ------------------------------------------------- Smart Demand Adjustment

\* a household's energy_demand of the tick (0.01 kWh) and its flags; the
\* default has neither flag
DefaultBehaviour == [energy_demand |-> 0, energy_conscious |-> FALSE, energy_hoarder |-> FALSE]

\* the order of the households by demand; equal demands keep the order of
\* the household list
LowerDemand(hs, a, b) ==
    \/ hs[a].energy_demand < hs[b].energy_demand
    \/ hs[a].energy_demand = hs[b].energy_demand /\ a < b
HigherDemand(hs, a, b) ==
    \/ hs[a].energy_demand > hs[b].energy_demand
    \/ hs[a].energy_demand = hs[b].energy_demand /\ a < b

\* mutant: the two lowest-demand households are taken among the households
\* that are not hoarders
LowestDemandNonHoarders(hs) ==
    LET candidates == {h \in DOMAIN hs : ~hs[h].energy_hoarder}
    IN  {h \in candidates :
            Cardinality({g \in candidates : LowerDemand(hs, g, h)}) < 2}

\* lowest_demand_households[:2]
LowestDemandHouseholds(hs) ==
    {h \in DOMAIN hs : Cardinality({g \in DOMAIN hs : LowerDemand(hs, g, h)}) < 2}

\* highest_demand_households[:2]
HighestDemandHouseholds(hs) ==
    {h \in DOMAIN hs : Cardinality({g \in DOMAIN hs : HigherDemand(hs, g, h)}) < 2}

\* demand *= 1.1 and demand *= 0.85
Raised(energy_demand) == (energy_demand * 11) \div 10
Reduced(energy_demand) == (energy_demand * 85) \div 100

\* Surplus scenario (sellers > 0, buyers = 0) and deficit scenario
\* (sellers = 0, buyers > 0)
AdjustDemand(hs, sellers, buyers) ==
    IF sellers > 0 /\ buyers = 0
    THEN [h \in DOMAIN hs |->
            IF h \in LowestDemandHouseholds(hs) /\ ~hs[h].energy_hoarder
            THEN [hs[h] EXCEPT !.energy_demand = Raised(@)]
            ELSE hs[h]]
    ELSE IF sellers = 0 /\ buyers > 0
    THEN [h \in DOMAIN hs |->
            IF h \in HighestDemandHouseholds(hs) /\ hs[h].energy_conscious
            THEN [hs[h] EXCEPT !.energy_demand = Reduced(@)]
            ELSE hs[h]]
    ELSE hs

\* the demands the households of the adjustment scenario can have
DemandSamples(h) == IF h = 1 THEN {100, 200} ELSE IF h = 2 THEN {140} ELSE {120, 300}

\* ------------------------------------------------------- SolarShareDashboard

\* the WebSockets and the interval timers the page can hold at one time
MaxSockets == 3
MaxTimers == 2

\* null
null == 0

\* the messages the page is sent in one run
MaxMessages == 2

\* the values of a JSON field: a number (weather values in tenths of their
\* unit), a string that is not a number, or nothing (the field is absent or
\* null); NaN is what parseFloat makes of the string
Num(n) == [kind |-> "number", value |-> n]
NotANumber == [kind |-> "string", value |-> 0]
undefined == [kind |-> "undefined", value |-> 0]
NaN == [kind |-> "NaN", value |-> 0]

\* value ?? fallback
Coalesce(value, fallback) == IF value = undefined THEN fallback ELSE value

\* value || fallback: the fallback replaces every falsy value, 0 included
OrElse(value, fallback) ==
    IF value = undefined \/ value = NaN \/ value = Num(0) THEN fallback ELSE value

\* parseFloat(value)
ParseFloat(value) == IF value.kind = "number" THEN value ELSE NaN

\* x.toFixed(1) and x.toFixed(0) of a value in tenths: in tenths as it is,
\* or rounded to the unit
ToFixed1(x) == x
ToFixed0(x) == IF x.kind = "number" THEN Num((x.value + 5) \div 10) ELSE x

\* a message without weather, and the message before any has arrived
NoWeather ==
    [present |-> FALSE, temp |-> undefined, solar_radiation |-> undefined,
     clouds |-> undefined, humidity |-> undefined]
NoMessage == [timestamp |-> 0, weather |-> NoWeather, households |-> <<>>, trades |-> <<>>]

\* the household inputs of simulationParamsForm as index.html has them, in
\* tenths: 3.5 kW, 10 kWh, 50 %; and no parameters posted yet
FormDefaults ==
    [solar_capacity |-> Num(35), battery_size |-> Num(100),
     initial_battery_level |-> Num(500)]
NoParameters ==
    [solar_capacity |-> undefined, battery_size |-> undefined,
     initial_battery_level |-> undefined]

\* a chart that does not exist yet (null), and a chart as new Chart makes it
NoChart == [created |-> FALSE, labels |-> <<>>, data |-> <<>>]
NewChart == [created |-> TRUE, labels |-> <<>>, data |-> <<>>]

\* constructor, with the part of init() that runs inside it (initializeUI
\* shows the status as disconnected), and the texts index.html is served with
NewDashboard ==
    [websocket |-> null,
     reconnectInterval |-> null,
     lastUpdateTime |-> null,
     solarRadiationChart |-> NoChart,
     temperatureChart |-> NoChart,
     weatherData |-> <<>>,
     householdData |-> <<>>,
     activityLog |-> <<>>,
     metrics |-> [energyTraded |-> Num(0), costSavings |-> Num(0),
                  co2Reduced |-> Num(0), resilience |-> Num(0),
                  energyDelta |-> Num(0), savingsDelta |-> Num(0),
                  co2Delta |-> Num(0), resilienceDelta |-> Num(0)],
     modal |-> "hidden",
     form |-> FormDefaults,
     isConnected |-> FALSE,
     connectionStatus |-> "Disconnected",
     temperature |-> Num(225),
     solarRadiation |-> Num(800),
     cloudCover |-> Num(30),
     humidity |-> Num(65),
     weatherDesc |-> "Partly Cloudy"]

\* the page as loaded: init() has still to call connectWebSocket, no socket
\* and no timer exists, the server is not reachable yet, the history of the
\* weather has not been asked for
PageLoaded ==
    [sockets |-> [k \in 1 .. MaxSockets |-> "none"],
     timers |-> {},
     reachable |-> FALSE,
     init_pending |-> TRUE,
     history |-> "none",
     fetches |-> <<>>,
     posted |-> NoParameters,
     response |-> "none",
     alert |-> "none",
     last_event |-> "load",
     attempts |-> 0,
     delivered |-> 0,
     now |-> 0,
     message |-> NoMessage]

\* the dashboard and its browser after a handler has run
After(d, b) == [dashboard |-> d, browser |-> b]

\* updateConnectionStatus(connected)
UpdateConnectionStatus(d, connected) ==
    [d EXCEPT !.connectionStatus = IF connected THEN "Connected" ELSE "Disconnected"]

\* setInterval: a timer id not in use
FreeTimers(b) == (1 .. MaxTimers) \ b.timers

\* scheduleReconnect()
ScheduleReconnect(d, b) ==
    IF d.reconnectInterval # null THEN After(d, b)
    ELSE IF FreeTimers(b) = {} THEN After(d, b)
    ELSE LET id == CHOOSE t \in FreeTimers(b) : \A u \in FreeTimers(b) : t <= u
         IN  After([d EXCEPT !.reconnectInterval = id],
                   [b EXCEPT !.timers = @ \cup {id}])

\* websocket.onopen
OnOpen(d, b) ==
    LET d1 == UpdateConnectionStatus([d EXCEPT !.isConnected = TRUE], TRUE)
    IN  IF d1.reconnectInterval # null
        THEN After([d1 EXCEPT !.reconnectInterval = null],
                   [b EXCEPT !.timers = @ \ {d1.reconnectInterval}])
        ELSE After(d1, b)

\* mutant: the close handler does not schedule a reconnect
OnCloseNoReconnect(d, b) ==
    After(UpdateConnectionStatus([d EXCEPT !.isConnected = FALSE], FALSE), b)

\* websocket.onclose
OnClose(d, b) ==
    ScheduleReconnect(UpdateConnectionStatus([d EXCEPT !.isConnected = FALSE], FALSE), b)

\* websocket.onerror
OnError(d, b) ==
    After(UpdateConnectionStatus([d EXCEPT !.isConnected = FALSE], FALSE), b)

\* new WebSocket(wsUrl): a socket object not in use
FreeSockets(b) == {k \in 1 .. MaxSockets : b.sockets[k] = "none"}

\* connectWebSocket(): the socket is created and held in this.websocket, or
\* its creation throws and the catch block schedules a reconnect
ConnectWebSocket(d, b, throws) ==
    LET b1 == [b EXCEPT !.attempts = (@ + 1) % 2]
    IN  IF throws
        THEN ScheduleReconnect(d, [b1 EXCEPT !.last_event = "throw"])
        ELSE LET k == CHOOSE x \in FreeSockets(b) : \A y \in FreeSockets(b) : x <= y
             IN  After([d EXCEPT !.websocket = k],
                       [b1 EXCEPT !.sockets[k] = "connecting", !.last_event = "connect"])

\* initializeWeatherCharts()
InitializeWeatherCharts(d) ==
    [d EXCEPT !.solarRadiationChart = NewChart, !.temperatureChart = NewChart]

\* init() once loadInitialData has returned: connectWebSocket, the charts,
\* and loadInitialWeatherData up to its fetch of /household_state.json
InitContinues(d, b, throws) ==
    LET connecting == ConnectWebSocket(d, b, throws)
    IN  After(InitializeWeatherCharts(connecting.dashboard),
              [connecting.browser EXCEPT !.history = "pending"])

\* the metrics test page as opened: its load event has still to fire
TestPageOpened ==
    [loaded |-> FALSE,
     autoUpdate |-> FALSE,
     intervals |-> {},
     polls |-> 0,
     alert |-> FALSE,
     event |-> [kind |-> "open", interval |-> 0],
     metrics |-> NewDashboard.metrics]

\* the engine as constructed: nothing has run yet
Constructed ==
    /\ tick = 0
    /\ pc = "weather"
    /\ crises = {}
    /\ metrics = ZeroMetrics
    /\ phase_log = <<>>
    /\ ledger = <<>>
    /\ state_log = <<>>
    /\ net_energy = [h \in Households |-> 0]
    /\ role = [h \in Households |-> "idle"]
    /\ trades = <<>>
    /\ supply = 0
    /\ demand = 0
    /\ price = 0
    /\ need = [h \in Households |-> 0]
    /\ round = 0
    /\ seller_order = <<>>
    /\ buyer_order = <<>>
    /\ bi = 0
    /\ si = 0
    /\ round_trades = 0
    /\ last = NoAttempt
    /\ snapshot = NoSnapshot
    /\ household = [h \in Households |-> DefaultBehaviour]
    /\ test_page = TestPageOpened

\* the community of three households, started at 00:00
Init ==
    /\ scenario = "community"
    /\ hour = 0
    /\ stored_energy_pct \in {f \in [Households -> UNION {InitLevels(h) : h \in Households}] :
                                 \A h \in Households : f[h] \in InitLevels(h)}
    /\ Constructed
    /\ dashboard = NewDashboard
    /\ browser = PageLoaded

\* the WeatherEngine on its own, with a positive crisis probability; the
\* households are at the default initial_battery_level of 0.5
InitWeather ==
    /\ scenario = "weather"
    /\ hour = 0
    /\ stored_energy_pct = [h \in Households |-> 500]
    /\ Constructed
    /\ dashboard = NewDashboard
    /\ browser = PageLoaded

\* the end-to-end scenario: noon, no crisis, H1 at 80% and H2 at 10%
InitEndToEnd ==
    /\ scenario = "end_to_end"
    /\ hour = 12
    /\ stored_energy_pct = [h \in Households |-> IF h = 1 THEN 800 ELSE 100]
    /\ Constructed
    /\ dashboard = NewDashboard
    /\ browser = PageLoaded

\* updateWeather(weather)
UpdateWeather(d, weather) ==
    LET temp == ToFixed1(ParseFloat(Coalesce(weather.temp, Num(225))))
        solarRad == ToFixed0(ParseFloat(Coalesce(weather.solar_radiation, Num(8000))))
        clouds == ToFixed0(ParseFloat(Coalesce(weather.clouds, Num(300))))
        humidity == ToFixed0(ParseFloat(Coalesce(weather.humidity, Num(650))))
        cloudsValue == ParseFloat(OrElse(weather.clouds, Num(300)))
        desc == IF cloudsValue.kind = "number" /\ cloudsValue.value < 200 THEN "Clear"
                ELSE IF cloudsValue.kind = "number" /\ cloudsValue.value < 600
                THEN "Partly Cloudy"
                ELSE "Cloudy"
    IN  [d EXCEPT !.temperature = temp, !.solarRadiation = solarRad,
                  !.cloudCover = clouds, !.humidity = humidity, !.weatherDesc = desc]

\* Keep only last 24 hours of data
maxDataPoints == 24
LastPoints(data) ==
    IF Len(data) > maxDataPoints
    THEN SubSeq(data, Len(data) - maxDataPoints + 1, Len(data))
    ELSE data

\* both charts are given the labels and the data of weatherData
ShowWeatherData(d) ==
    LET labels == [i \in DOMAIN d.weatherData |-> d.weatherData[i].timestamp]
        solarData == [i \in DOMAIN d.weatherData |-> d.weatherData[i].solar_radiation]
        tempData == [i \in DOMAIN d.weatherData |-> d.weatherData[i].temperature]
    IN  [d EXCEPT !.solarRadiationChart.labels = labels,
                  !.solarRadiationChart.data = solarData,
                  !.temperatureChart.labels = labels,
                  !.temperatureChart.data = tempData]

\* {timestamp, solar_radiation, temperature} of a weather object
WeatherPoint(weather, timestamp) ==
    [timestamp |-> timestamp,
     solar_radiation |-> ParseFloat(Coalesce(weather.solar_radiation, Num(0))),
     temperature |-> ParseFloat(Coalesce(weather.temp, Num(225)))]

\* mutant: the oldest points are kept
UpdateWeatherChartsKeepOldest(d, weather, timestamp) ==
    IF ~d.solarRadiationChart.created \/ ~d.temperatureChart.created THEN d
    ELSE LET pushed == Append(d.weatherData, WeatherPoint(weather, timestamp))
         IN  ShowWeatherData([d EXCEPT !.weatherData =
                 SubSeq(pushed, 1, Min(maxDataPoints, Len(pushed)))])

\* updateWeatherCharts(weather, timestamp)
UpdateWeatherCharts(d, weather, timestamp) ==
    IF ~d.solarRadiationChart.created \/ ~d.temperatureChart.created THEN d
    ELSE ShowWeatherData([d EXCEPT !.weatherData =
             LastPoints(Append(@, WeatherPoint(weather, timestamp)))])

\* loadInitialWeatherData() once its fetch has returned: weatherData becomes
\* the last 24 items of the file
LoadInitialWeatherData(d, ok, data) ==
    IF ~ok THEN d
    ELSE LET recentData == LastPoints(data)
             d1 == [d EXCEPT !.weatherData =
                       [i \in DOMAIN recentData |->
                           WeatherPoint(recentData[i].weather, recentData[i].timestamp)]]
         IN  IF d1.solarRadiationChart.created /\ d1.temperatureChart.created
             THEN ShowWeatherData(d1)
             ELSE d1

\* updateHouseholds(households): householdData.set(household.id, household)
UpdateHouseholdData(d, households) ==
    [d EXCEPT !.householdData =
        [h \in DOMAIN @ \cup DOMAIN households |->
            IF h \in DOMAIN households THEN households[h] ELSE @[h]]]

\* obj[name] of a received JSON object: undefined when it has no such key
Field(obj, name) == IF name \in DOMAIN obj THEN Num(obj[name]) ELSE undefined

\* new Date(Date.now()): an object, equal (===) to nothing received
Date(now) == [kind |-> "Date", value |-> now]

\* activityLog.find(log => log.seller_id === trade.seller_id && ...)
Logged(activityLog, trade) ==
    \E i \in DOMAIN activityLog :
        /\ activityLog[i].seller_id = Field(trade, "seller_id")
        /\ activityLog[i].buyer_id = Field(trade, "buyer_id")
        /\ activityLog[i].timestamp = Field(trade, "timestamp")

\* {type: 'trade', text, timestamp: new Date(trade.timestamp || Date.now()),
\* ...trade}: the trade's own timestamp, when it has one, replaces the Date
LogEntry(trade, now) ==
    [type |-> "trade",
     seller_id |-> Field(trade, "seller_id"),
     buyer_id |-> Field(trade, "buyer_id"),
     timestamp |-> IF "timestamp" \in DOMAIN trade
                   THEN Field(trade, "timestamp") ELSE Date(now),
     trade |-> trade]

\* trades.forEach(trade => { if (!find) activityLog.unshift(entry) })
RECURSIVE AddTrades(_, _, _)
AddTrades(activityLog, list, now) ==
    IF list = <<>> THEN activityLog
    ELSE AddTrades(IF Logged(activityLog, Head(list)) THEN activityLog
                   ELSE <<LogEntry(Head(list), now)>> \o activityLog,
                   Tail(list), now)

\* Keep only last 50 activities
maxActivities == 50

\* mutant: the log is never cut
UpdateTradesUnbounded(d, list, now) ==
    [d EXCEPT !.activityLog = AddTrades(d.activityLog, list, now)]

\* updateTrades(trades)
UpdateTrades(d, list, now) ==
    LET added == AddTrades(d.activityLog, list, now)
    IN  [d EXCEPT !.activityLog = SubSeq(added, 1, Min(maxActivities, Len(added)))]

\* renderActivityFeed() throws: activity.timestamp.toLocaleTimeString is not
\* a function unless the timestamp is a Date
RenderThrows(activityLog) ==
    \E i \in DOMAIN activityLog : activityLog[i].timestamp.kind # "Date"

\* parseInt(value) of a value in tenths
ParseInt(value) ==
    IF value.kind = "number" THEN Num((value.value \div 10) * 10) ELSE NaN

\* updateMetrics(metrics): the values the counters are animated to (one
\* decimal) and the deltas (a signed number stands for the signed string)
UpdateMetricsPanel(d, received) ==
    [d EXCEPT !.metrics =
        [energyTraded |-> ToFixed1(ParseFloat(OrElse(received.energy_traded, Num(0)))),
         costSavings |-> ToFixed1(ParseFloat(OrElse(received.cost_savings, Num(0)))),
         co2Reduced |-> ToFixed1(ParseFloat(OrElse(received.co2_reduced, Num(0)))),
         resilience |-> ToFixed1(ParseInt(OrElse(received.resilience, Num(0)))),
         energyDelta |-> OrElse(received.delta_energy, Num(0)),
         savingsDelta |-> OrElse(received.delta_savings, Num(0)),
         co2Delta |-> OrElse(received.delta_co2, Num(0)),
         resilienceDelta |-> OrElse(received.delta_resilience, Num(0))]]

\* GET /metrics as the server answers it once it has sent its n-th message
ServerMetrics(n) ==
    [energy_traded |-> Num(125 * n), cost_savings |-> Num(19 * n),
     co2_reduced |-> Num(50 * n), resilience |-> Num(600 + 15 * n),
     delta_energy |-> Num(125), delta_savings |-> Num(19),
     delta_co2 |-> Num(50), delta_resilience |-> Num(15)]

\* handleRealtimeData(data)
HandleRealtimeData(d, data, now) ==
    LET d1 == [d EXCEPT !.lastUpdateTime = data.timestamp]
        d2 == IF data.weather.present
              THEN UpdateWeatherCharts(UpdateWeather(d1, data.weather),
                                       data.weather, data.timestamp)
              ELSE d1
    IN  UpdateTrades(UpdateHouseholdData(d2, data.households), data.trades, now)

\* a trade as the documented output carries it: from, to, kwh, price
WireTrade(trade) ==
    [from |-> trade.seller_id, to |-> trade.buyer_id,
     kwh |-> trade.kwh, price |-> trade.price]

\* the weather fields a message can carry, as the server may send them
WeatherFields ==
    [present : {TRUE}, temp : {undefined, NotANumber, Num(301)},
     solar_radiation : {undefined, NotANumber, Num(0), Num(6504)},
     clouds : {undefined, NotANumber, Num(0)},
     humidity : {undefined, Num(800)}]

\* mutant: the transport layer sends the engine's live state
EnvelopeOfLiveState(published) ==
    [timestamp |-> tick,
     weather |-> NoWeather,
     households |-> [h \in Households |-> HouseholdEntry(h)],
     trades |-> [i \in DOMAIN trades |-> WireTrade(trades[i])]]

\* the message the transport layer makes of a published TickSnapshot
Envelope(published) ==
    [timestamp |-> published.timestamp,
     weather |-> NoWeather,
     households |-> published.households,
     trades |-> [i \in DOMAIN published.trades |-> WireTrade(published.trades[i])]]

\* the page with its first socket open
PageConnected ==
    LET created == InitContinues(NewDashboard,
                      [PageLoaded EXCEPT !.init_pending = FALSE, !.reachable = TRUE], FALSE)
    IN  OnOpen(created.dashboard,
               [created.browser EXCEPT !.sockets[created.dashboard.websocket] = "open",
                                       !.last_event = "open"])

\* the dashboard's page, loaded beside an engine that is not running
InitDashboard ==
    /\ scenario = "dashboard"
    /\ hour = 0
    /\ stored_energy_pct = [h \in Households |-> 500]
    /\ Constructed
    /\ dashboard = NewDashboard
    /\ browser = PageLoaded

\* the connected dashboard beside an engine that is not running: it is sent
\* weather
InitWeatherFeed ==
    /\ scenario = "weather_feed"
    /\ hour = 0
    /\ stored_energy_pct = [h \in Households |-> 500]
    /\ Constructed
    /\ dashboard = PageConnected.dashboard
    /\ browser = PageConnected.browser

\* the connected dashboard beside the engine of the end-to-end scenario
InitSnapshotFeed ==
    /\ scenario = "end_to_end"
    /\ hour = 12
    /\ stored_energy_pct = [h \in Households |-> IF h = 1 THEN 800 ELSE 100]
    /\ Constructed
    /\ dashboard = PageConnected.dashboard
    /\ browser = PageConnected.browser

\* the trades a message can carry: as the documented output has them, and
\* as the trade ledger has them (two pairs of one tick, and the first pair
\* trading again in a later round of the tick)
WireTrades ==
    {[from |-> 1, to |-> 2, kwh |-> 125, price |-> 19],
     [from |-> 1, to |-> 3, kwh |-> 50, price |-> 19]}
LedgerTrades ==
    {[seller_id |-> 1, buyer_id |-> 2, kwh |-> 200, price |-> 19, timestamp |-> 60],
     [seller_id |-> 1, buyer_id |-> 3, kwh |-> 50, price |-> 19, timestamp |-> 60],
     [seller_id |-> 1, buyer_id |-> 2, kwh |-> 50, price |-> 19, timestamp |-> 60]}
TradeLists ==
    LET Lists(T) == {<<t>> : t \in T} \cup {<<t, u>> : <<t, u>> \in {p \in T \X T : p[1] # p[2]}}
    IN  {<<>>} \cup Lists(WireTrades) \cup Lists(LedgerTrades)

\* the activity log after n earlier trades, one message each, newest first
EarlierLog(n) ==
    [i \in 1 .. n |-> LogEntry([from |-> 2, to |-> 3, kwh |-> 100 + (n - i), price |-> 19],
                               n - i + 1)]

\* the connected dashboard beside an engine that is not running: it is sent
\* trades, from the start or after maxActivities - 1 earlier ones
InitTradeFeed ==
    /\ scenario = "trade_feed"
    /\ hour = 0
    /\ stored_energy_pct = [h \in Households |-> 500]
    /\ Constructed
    /\ \E log \in {<<>>, EarlierLog(maxActivities - 1)} :
          /\ dashboard = [PageConnected.dashboard EXCEPT !.activityLog = log]
          /\ browser = [PageConnected.browser EXCEPT !.now = Len(log)]

\* the values the household inputs of the form allow (range inputs: min,
\* max and a value between), in tenths
FormValues ==
    [solar_capacity |-> {Num(20), Num(35), Num(50)},
     battery_size |-> {Num(50), Num(100), Num(150)},
     initial_battery_level |-> {Num(0), Num(50), Num(500), Num(1000)}]

\* parameters.household of submitSimulationParams
HouseholdParameters(form) ==
    [solar_capacity |-> ParseFloat(form.solar_capacity),
     battery_size |-> ParseFloat(form.battery_size),
     initial_battery_level |-> ParseInt(form.initial_battery_level)]

\* this.addActivity(type, text, source): the class has no method of this
\* name, the call throws a TypeError and the log is left as it was
AddActivity(d, type, text) == [thrown |-> TRUE, dashboard |-> d]

\* submitSimulationParams(), the answer to its POST being response
SubmitSimulationParams(d, b, response) ==
    LET b1 == [b EXCEPT !.posted = HouseholdParameters(d.form), !.response = response,
                        !.alert = "none", !.last_event = "submit"]
    IN  IF response = "rejected"
        THEN After(d, [b1 EXCEPT !.alert = "Error updating simulation parameters"])
        ELSE IF response = "ok"
        THEN LET closed == [d EXCEPT !.modal = "hidden"]
                 added == AddActivity(closed, "simulation",
                                      "Custom simulation parameters applied")
             IN  IF added.thrown
                 THEN After(added.dashboard,
                            [b1 EXCEPT !.alert = "Error updating simulation parameters"])
                 ELSE After(added.dashboard, b1)
        ELSE After(d, [b1 EXCEPT !.alert = "Failed to update simulation parameters"])

\* resetSimulationParams(), the answer to its DELETE being response
ResetSimulationParams(d, b, response) ==
    LET b1 == [b EXCEPT !.last_event = "reset"]
    IN  IF response = "ok"
        THEN After(AddActivity([d EXCEPT !.form = FormDefaults], "simulation",
                               "Simulation parameters reset to defaults").dashboard, b1)
        ELSE After(d, b1)

\* openSimulationParamsModal(), the answer to its GET being response: the
\* inputs are set to the custom parameters the server holds
OpenSimulationParamsModal(d, b, response) ==
    LET b1 == [b EXCEPT !.last_event = "modal"]
        custom_enabled == b.response = "ok"
    IN  IF response = "rejected" THEN After(d, b1)
        ELSE IF response = "ok" /\ custom_enabled
        THEN After([d EXCEPT !.form = b.posted, !.modal = "active"], b1)
        ELSE After([d EXCEPT !.modal = "active"], b1)

\* the answers a request can get: none (the fetch rejects), not OK, OK
Responses == {"rejected", "not_ok", "ok"}

\* the connected dashboard, its parameters modal closed
InitParameters ==
    /\ scenario = "parameters"
    /\ hour = 0
    /\ stored_energy_pct = [h \in Households |-> 500]
    /\ Constructed
    /\ dashboard = PageConnected.dashboard
    /\ browser = PageConnected.browser

\* the weather a message can carry, with and without the two fields the
\* charts plot
WeatherSamples ==
    [present : {TRUE}, temp : {undefined, Num(301)},
     solar_radiation : {undefined, Num(0), Num(6504)},
     clouds : {undefined}, humidity : {undefined}] \cup {NoWeather}

\* weatherData after n earlier messages with weather
EarlierPoints(n) ==
    [i \in 1 .. n |->
        WeatherPoint([NoWeather EXCEPT !.present = TRUE, !.temp = Num(200 + i),
                                       !.solar_radiation = Num(1000 + i)], i)]

\* /household_state.json: no item, a few items, more than the charts take
HistoryItem(i) ==
    [timestamp |-> i,
     weather |-> [NoWeather EXCEPT !.present = TRUE, !.temp = Num(100 + i)]]
HistoryFiles ==
    {[i \in 1 .. n |-> HistoryItem(i)] : n \in {0, 2, maxDataPoints + 1}}

\* the connected dashboard beside an engine that is not running: it is sent
\* weather, from the start or after maxDataPoints - 1 earlier messages, and
\* the fetch of the weather history is under way or over
InitWeatherHistory ==
    /\ scenario = "weather_history"
    /\ hour = 0
    /\ stored_energy_pct = [h \in Households |-> 500]
    /\ Constructed
    /\ \E points \in {<<>>, EarlierPoints(maxDataPoints - 1)} :
       \E history \in {"pending", "done"} :
          /\ dashboard = ShowWeatherData([PageConnected.dashboard EXCEPT !.weatherData = points])
          /\ browser = [PageConnected.browser EXCEPT !.now = Len(points),
                                                    !.history = history]

\* the connected dashboard beside an engine that is not running: it is sent
\* ticks and asks for the metrics after each
InitMetricsFeed ==
    /\ scenario = "metrics_feed"
    /\ hour = 0
    /\ stored_energy_pct = [h \in Households |-> 500]
    /\ Constructed
    /\ dashboard = PageConnected.dashboard
    /\ browser = PageConnected.browser

\* the intervals the metrics test page can have set at one time
MaxIntervals == 3

\* loadMetrics(): /metrics is fetched; the counters and deltas are set from
\* the answer, or the failure is alerted
LoadMetrics(page, ok, n) ==
    LET polled == [page EXCEPT !.polls = (@ + 1) % 2]
    IN  IF ok THEN [UpdateMetricsPanel(polled, ServerMetrics(n)) EXCEPT !.alert = FALSE]
        ELSE [polled EXCEPT !.alert = TRUE]

\* setInterval: an interval id not in use
FreeIntervals(page) == (1 .. MaxIntervals) \ page.intervals

\* loadMetricsEvery5Sec(): the click on Auto Update
LoadMetricsEvery5Sec(page, ok, n) ==
    IF page.autoUpdate
    THEN [page EXCEPT !.autoUpdate = FALSE, !.event = [kind |-> "off", interval |-> 0]]
    ELSE LET id == CHOOSE i \in FreeIntervals(page) : \A j \in FreeIntervals(page) : i <= j
         IN  LoadMetrics([page EXCEPT !.autoUpdate = TRUE, !.intervals = @ \cup {id},
                                      !.event = [kind |-> "on", interval |-> id]], ok, n)

\* the callback of the interval id
IntervalCallback(page, id, ok, n) ==
    IF ~page.autoUpdate
    THEN [page EXCEPT !.intervals = @ \ {id}, !.event = [kind |-> "cleared", interval |-> id]]
    ELSE LoadMetrics([page EXCEPT !.event = [kind |-> "polled", interval |-> id]], ok, n)

\* the metrics test page, opened beside an engine that is not running
InitTestPage ==
    /\ scenario = "test_page"
    /\ hour = 0
    /\ stored_energy_pct = [h \in Households |-> 500]
    /\ Constructed
    /\ dashboard = NewDashboard
    /\ browser = PageLoaded

\* the demand adjustment on its own: any roles left by the tick before, any
\* flags, demands that differ from household to household
InitAdjustment ==
    /\ scenario = "adjustment"
    /\ hour = 0
    /\ tick = 0
    /\ pc = "weather"
    /\ stored_energy_pct = [h \in Households |-> 500]
    /\ role \in [Households -> {"seller", "buyer", "idle"}]
    /\ household \in {hs \in [Households -> [energy_demand : UNION {DemandSamples(h) : h \in Households},
                                               energy_conscious : BOOLEAN,
                                               energy_hoarder : BOOLEAN]] :
                          \A h \in Households : hs[h].energy_demand \in DemandSamples(h)}
    /\ net_energy = [h \in Households |-> 0]
    /\ need = [h \in Households |-> 0]
    /\ crises = {}
    /\ metrics = ZeroMetrics
    /\ phase_log = <<>>
    /\ ledger = <<>>
    /\ state_log = <<>>
    /\ trades = <<>>
    /\ supply = 0
    /\ demand = 0
    /\ price = 0
    /\ round = 0
    /\ seller_order = <<>>
    /\ buyer_order = <<>>
    /\ bi = 0
    /\ si = 0
    /\ round_trades = 0
    /\ last = NoAttempt
    /\ snapshot = NoSnapshot
    /\ dashboard = NewDashboard
    /\ browser = PageLoaded
    /\ test_page = TestPageOpened

\* stored_energy_pct values handed to the MetricsEngine on its own
StoredSamples == {0, 335, FULL}

\* a trade list of k trades of the smallest size
RECURSIVE SmallTrades(_)
SmallTrades(k) ==
    IF k = 0 THEN <<>>
    ELSE Append(SmallTrades(k - 1),
                [seller_id |-> 1, buyer_id |-> 1, kwh |-> min_trade_size,
                 price |-> min_price, timestamp |-> 1])

\* the MetricsEngine on its own: any number of households, any stored
\* values, any roles, any number of trades, at the start of the metrics
\* phase of a first tick
InitMetrics ==
    /\ scenario = "metrics"
    /\ hour = 0
    /\ tick = 1
    /\ pc = "metrics"
    /\ \E n \in 1 .. MaxHouseholds :
          /\ stored_energy_pct \in [1 .. n -> StoredSamples]
          /\ role \in [1 .. n -> {"seller", "buyer", "idle"}]
    /\ \E k \in 0 .. MaxTrades : trades = SmallTrades(k)
    /\ net_energy = [h \in Households |-> 0]
    /\ need = [h \in Households |-> 0]
    /\ crises = {}
    /\ metrics = ZeroMetrics
    /\ phase_log = <<"weather", "household", "role", "market">>
    /\ ledger = <<>>
    /\ state_log = <<>>
    /\ supply = 0
    /\ demand = 0
    /\ price = 0
    /\ round = 0
    /\ seller_order = <<>>
    /\ buyer_order = <<>>
    /\ bi = 0
    /\ si = 0
    /\ round_trades = 0
    /\ last = NoAttempt
    /\ snapshot = NoSnapshot
    /\ household = [h \in Households |-> DefaultBehaviour]
    /\ dashboard = NewDashboard
    /\ browser = PageLoaded
    /\ test_page = TestPageOpened

matching == <<supply, demand, price, need, round, seller_order, buyer_order, bi, si,
              round_trades, last>>

\* ----------------------------------------------------------------- actions

\* what the household, market and metrics phases leave alone
outside == <<scenario, hour, crises, ledger, state_log, household, dashboard, browser,
             test_page>>

\* WeatherEngine: a tick starts; the clock is on the tick's hour and the
\* crisis lifecycle is run
WeatherPhase ==
    /\ pc = "weather"
    /\ tick < MaxTicks
    /\ LET current_hour == IF tick = 0 THEN hour ELSE NextHour(hour)
       IN  /\ hour' = current_hour
           /\ \E trigger \in TriggerDraws, duration \in Durations :
                 crises' = Weather(crises, current_hour, trigger, duration)
    /\ tick' = tick + 1
    /\ trades' = <<>>
    /\ phase_log' = <<pc>>
    /\ pc' = NextPhase(pc)
    /\ UNCHANGED <<stored_energy_pct, net_energy, role, matching, snapshot,
                   scenario, metrics, ledger, state_log, household, dashboard,
                   browser, test_page>>

\* The WeatherEngine on its own, called hour after hour: the clock moves to
\* the next hour and the crisis lifecycle is run for it.
WeatherStep ==
    /\ pc = "weather"
    /\ hour' = NextHour(hour)
    /\ \E trigger \in TriggerDraws, duration \in Durations :
          crises' = Weather(crises, hour', trigger, duration)
    /\ UNCHANGED <<tick, pc, stored_energy_pct, net_energy, role, trades, matching,
                   snapshot, scenario, metrics, phase_log, ledger, state_log,
                   household, dashboard, browser, test_page>>

\* HouseholdModel, applied to every household: net energy and battery update
UpdateHouseholds ==
    /\ pc = "household"
    /\ \E net \in {f \in [Households -> UNION {NetChoices(h) : h \in Households}] :
                       \A h \in Households : f[h] \in NetChoices(h)} :
        /\ net_energy' = net
        /\ stored_energy_pct' =
              [h \in Households |->
                  UpdateBattery(stored_energy_pct[h], net[h], battery_size(h))]
    /\ phase_log' = Append(phase_log, pc)
    /\ pc' = NextPhase(pc)
    /\ UNCHANGED <<tick, trades, role, matching, snapshot, metrics, outside>>

\* Role assignment, after the battery state updates
UpdateRoles ==
    /\ pc = "role"
    /\ role' = [h \in Households |-> UpdateRole(stored_energy_pct[h], net_energy[h])]
    /\ phase_log' = Append(phase_log, pc)
    /\ pc' = NextPhase(pc)
    /\ UNCHANGED <<tick, stored_energy_pct, net_energy, trades, matching, snapshot,
                   metrics, outside>>

\* the locals of the matching are gone when it returns; supply, demand and
\* price are kept for the tick
EndMatching ==
    /\ round' = 0
    /\ seller_order' = <<>>
    /\ buyer_order' = <<>>
    /\ bi' = 0
    /\ si' = 0
    /\ round_trades' = 0
    /\ need' = [h \in Households |-> 0]
    /\ phase_log' = Append(phase_log, "market")
    /\ pc' = NextPhase("market")

\* Market formation and dynamic pricing.  demand = 0 skips the matching
\* (no price); no sellers or no buyers means no trades.
FormMarket ==
    /\ pc = "market"
    /\ LET S == Sellers(stored_energy_pct, role)
           B == Buyers(stored_energy_pct, role)
           s == Supply(stored_energy_pct, S)
           d == Demand(net_energy, B)
       IN  /\ supply' = s
           /\ demand' = d
           /\ last' = NoAttempt
           /\ price' = IF d = 0 THEN 0 ELSE TickPrice(s, d)
           /\ IF NoTradeCondition(S, B, d)
              THEN EndMatching
              ELSE /\ need' = [h \in Households |->
                                  IF h \in B THEN Abs(net_energy[h]) ELSE 0]
                   /\ round' = 1
                   /\ seller_order' = SortSellers(S, stored_energy_pct)
                   /\ buyer_order' = SortBuyers(B, stored_energy_pct, net_energy)
                   /\ bi' = 1
                   /\ si' = 1
                   /\ round_trades' = 0
                   /\ pc' = "match"
                   /\ UNCHANGED phase_log
    /\ UNCHANGED <<tick, stored_energy_pct, net_energy, role, trades, snapshot,
                   metrics, outside>>

\* The attempt of the walk's current pair: the buyer at bi meets the seller
\* at si (defined while pc = "match")
Attempt ==
    LET b == buyer_order[bi]
        s == seller_order[si]
        seller_available_kwh == SellerAvailable(stored_energy_pct[s], battery_size(s))
        candidate == Candidate(round, seller_available_kwh, need[b])
        amount == Feasible(candidate, seller_available_kwh,
                           BuyerHeadroom(stored_energy_pct[b], battery_size(b)))
    IN  [seller |-> s, buyer |-> b, candidate |-> candidate, kwh |-> amount,
         executed |-> Tradable(amount)]

\* One step of the walk: the attempt is made, the trade (if any) is applied
\* to both parties, and the walk moves on to the next seller, the next buyer,
\* the next round or the end of the matching.
MatchStep ==
    /\ pc = "match"
    /\ LET a == Attempt
           s == a.seller
           b == a.buyer
           st2 == IF a.executed
                  THEN [stored_energy_pct EXCEPT
                          ![s] = SellerAfter(@, a.kwh, battery_size(s)),
                          ![b] = BuyerAfter(@, a.kwh, battery_size(b))]
                  ELSE stored_energy_pct
           need2 == IF a.executed THEN [need EXCEPT ![b] = @ - a.kwh] ELSE need
           traded == IF a.executed THEN round_trades + 1 ELSE round_trades
           S == {seller_order[i] : i \in 1 .. Len(seller_order)}
           B == {buyer_order[i] : i \in 1 .. Len(buyer_order)}
       IN  /\ stored_energy_pct' = st2
           /\ trades' = IF a.executed
                        THEN Append(trades,
                               [seller_id |-> s, buyer_id |-> b, kwh |-> a.kwh,
                                price |-> TradePrice(price, st2, need2, S, B),
                                timestamp |-> tick])
                        ELSE trades
           /\ last' = a
           /\ IF si < Len(seller_order)
              THEN /\ si' = si + 1
                   /\ need' = need2
                   /\ round_trades' = traded
                   /\ UNCHANGED <<round, seller_order, buyer_order, bi, pc, phase_log>>
              ELSE IF bi < Len(buyer_order)
              THEN /\ bi' = bi + 1
                   /\ si' = 1
                   /\ need' = need2
                   /\ round_trades' = traded
                   /\ UNCHANGED <<round, seller_order, buyer_order, pc, phase_log>>
              ELSE IF RoundsLeft(round) /\ BothRemain(st2, need2, S, B)
              THEN /\ round' = round + 1
                   /\ seller_order' = SortSellers(S, st2)
                   /\ buyer_order' = SortBuyers(B, st2, net_energy)
                   /\ bi' = 1
                   /\ si' = 1
                   /\ round_trades' = 0
                   /\ need' = need2
                   /\ UNCHANGED <<pc, phase_log>>
              ELSE EndMatching
    /\ UNCHANGED <<tick, net_energy, role, supply, demand, price, snapshot,
                   metrics, outside>>

\* MetricsEngine: from the previous metrics, the tick's trades and the
\* household states the matching has left
UpdateMetrics ==
    /\ pc = "metrics"
    /\ metrics' = ComputeMetrics(metrics, trades, stored_energy_pct, role)
    /\ phase_log' = Append(phase_log, pc)
    /\ pc' = NextPhase(pc)
    /\ UNCHANGED <<tick, stored_energy_pct, net_energy, role, trades, matching,
                   snapshot, outside>>

\* The TickSnapshot is assembled once per tick after all phases
Publish ==
    /\ pc = "publish"
    /\ snapshot' = [timestamp |-> tick,
                    households |-> [h \in Households |-> HouseholdEntry(h)],
                    trades |-> trades,
                    metrics |-> metrics]
    /\ ledger' = ledger \o trades
    /\ state_log' = Append(state_log, snapshot')
    /\ phase_log' = Append(phase_log, pc)
    /\ pc' = NextPhase(pc)
    /\ UNCHANGED <<tick, stored_energy_pct, net_energy, role, trades, matching,
                   scenario, hour, crises, metrics, household, dashboard, browser, test_page>>

\* ------------------------------------------------------- dashboard actions

\* what the dashboard's handlers leave alone: the engine, and the other page
engine_alone == <<tick, pc, stored_energy_pct, net_energy, role, trades, matching,
                  snapshot, scenario, hour, crises, metrics, phase_log, ledger,
                  state_log, household>>
engine == <<engine_alone, test_page>>

\* a handler has run
Becomes(result) ==
    /\ dashboard' = result.dashboard
    /\ browser' = result.browser
    /\ UNCHANGED engine

\* init() goes on after loadInitialData: the first call of connectWebSocket,
\* the charts, the fetch of the weather history
Start ==
    /\ browser.init_pending
    /\ \E throws \in BOOLEAN :
          Becomes(InitContinues(dashboard, [browser EXCEPT !.init_pending = FALSE], throws))

\* the reconnect interval fires and its callback calls connectWebSocket
ReconnectTick(throws) ==
    /\ browser.timers # {}
    /\ FreeSockets(browser) # {}
    /\ Becomes(ConnectWebSocket(dashboard, browser, throws))

\* a connecting socket opens: the open event
SocketOpens(k) ==
    /\ browser.sockets[k] = "connecting"
    /\ browser.reachable
    /\ Becomes(OnOpen(dashboard,
                      [browser EXCEPT !.sockets[k] = "open", !.last_event = "open"]))

\* a connecting socket fails: the error event, then the close event
SocketFails(k) ==
    /\ browser.sockets[k] = "connecting"
    /\ ~browser.reachable
    /\ LET failed == OnError(dashboard,
                             [browser EXCEPT !.sockets[k] = "none", !.last_event = "close"])
       IN  Becomes(OnClose(failed.dashboard, failed.browser))

\* an open socket is closed (by the server, or with the network)
SocketCloses(k) ==
    /\ browser.sockets[k] = "open"
    /\ Becomes(OnClose(dashboard,
                       [browser EXCEPT !.sockets[k] = "none", !.last_event = "close"]))

\* The caller's behavioural adjustment across the community, from the roles
\* the community currently has, before the households are updated
AdjustDemands ==
    /\ scenario = "adjustment"
    /\ pc = "weather"
    /\ household' = AdjustDemand(household,
                                 Cardinality(Sellers(stored_energy_pct, role)),
                                 Cardinality(Buyers(stored_energy_pct, role)))
    /\ pc' = "household"
    /\ UNCHANGED <<tick, stored_energy_pct, net_energy, role, trades, matching, snapshot,
                   scenario, hour, crises, metrics, phase_log, ledger, state_log,
                   dashboard, browser, test_page>>

\* the server starts or stops being reachable
ServerChanges ==
    /\ browser' = [browser EXCEPT !.reachable = ~@]
    /\ UNCHANGED dashboard
    /\ UNCHANGED engine

\* websocket.onmessage: a message arrives on an open socket and is handled;
\* handleRealtimeData ends with refreshMetrics, which goes as far as its
\* fetch of /metrics, unless the rendering of the activity feed has thrown
OnMessage(data) ==
    /\ \E k \in 1 .. MaxSockets : browser.sockets[k] = "open"
    /\ browser.delivered < MaxMessages
    /\ dashboard' = HandleRealtimeData(dashboard, data, browser.now + 1)
    /\ browser' = [browser EXCEPT !.delivered = @ + 1, !.now = @ + 1, !.message = data,
                                  !.fetches = Append(@, IF RenderThrows(dashboard'.activityLog)
                                                        THEN "none" ELSE "pending")]
    /\ UNCHANGED engine

\* the server sends a message with weather only
WeatherMessage ==
    \E weather \in WeatherFields \cup {NoWeather} :
        OnMessage([timestamp |-> browser.delivered + 1, weather |-> weather,
                   households |-> <<>>, trades |-> <<>>])

\* the transport layer sends the published TickSnapshot
SnapshotMessage ==
    /\ snapshot # NoSnapshot
    /\ OnMessage(Envelope(snapshot))

\* the server sends a message with trades only
TradeMessage ==
    \E list \in TradeLists :
        OnMessage([timestamp |-> browser.now + 1, weather |-> NoWeather,
                   households |-> <<>>, trades |-> list])

\* the server sends a message with the weather of the hour
WeatherSample ==
    \E weather \in WeatherSamples :
        OnMessage([timestamp |-> browser.now + 1, weather |-> weather,
                   households |-> <<>>, trades |-> <<>>])

\* the fetch of /household_state.json returns, with the file or without
HistoryLoads ==
    /\ browser.history = "pending"
    /\ \E ok \in BOOLEAN : \E data \in IF ok THEN HistoryFiles ELSE {<<>>} :
          dashboard' = LoadInitialWeatherData(dashboard, ok, data)
    /\ browser' = [browser EXCEPT !.history = "done"]
    /\ UNCHANGED engine

\* the server sends a message with the trades of a tick, none or one
TickMessage ==
    \E list \in {<<>>} \cup {<<t>> : t \in WireTrades \cup LedgerTrades} :
        OnMessage([timestamp |-> browser.now + 1, weather |-> NoWeather,
                   households |-> <<>>, trades |-> list])

\* refreshMetrics() once its fetch has returned: the fetch issued for the
\* n-th message is answered, OK or not
MetricsResponse(n, ok) ==
    /\ n \in DOMAIN browser.fetches
    /\ browser.fetches[n] = "pending"
    /\ dashboard' = IF ok THEN UpdateMetricsPanel(dashboard, ServerMetrics(n))
                     ELSE dashboard
    /\ browser' = [browser EXCEPT !.fetches[n] = IF ok THEN "ok" ELSE "failed"]
    /\ UNCHANGED engine

\* the simulation control toggle is switched on
OpenModal ==
    /\ dashboard.modal = "hidden"
    /\ \E response \in Responses :
          Becomes(OpenSimulationParamsModal(dashboard, browser, response))

\* closeSimulationParamsModal(): the close button, or a click outside
CloseModal ==
    /\ dashboard.modal = "active"
    /\ Becomes(After([dashboard EXCEPT !.modal = "hidden"],
                      [browser EXCEPT !.last_event = "modal"]))

\* the user moves one of the household inputs
SetInput ==
    /\ dashboard.modal = "active"
    /\ \E name \in DOMAIN FormValues : \E value \in FormValues[name] :
          Becomes(After([dashboard EXCEPT !.form[name] = value],
                        [browser EXCEPT !.last_event = "input"]))

\* Apply Parameters: the form is submitted and the POST is answered
Submit ==
    /\ dashboard.modal = "active"
    /\ \E response \in Responses :
          Becomes(SubmitSimulationParams(dashboard, browser, response))

\* Reset to Defaults: the DELETE is answered
Reset ==
    /\ dashboard.modal = "active"
    /\ \E response \in Responses :
          Becomes(ResetSimulationParams(dashboard, browser, response))

\* what the test page's handlers leave alone
beside_test_page == <<engine_alone, dashboard, browser>>

\* window load: loadMetrics
TestPageLoads ==
    /\ ~test_page.loaded
    /\ \E ok \in BOOLEAN : \E n \in 1 .. MaxMessages :
          test_page' = LoadMetrics([test_page EXCEPT !.loaded = TRUE,
                                        !.event = [kind |-> "load", interval |-> 0]], ok, n)
    /\ UNCHANGED beside_test_page

\* a click on Auto Update
ClickAutoUpdate ==
    /\ test_page.loaded
    /\ test_page.autoUpdate \/ FreeIntervals(test_page) # {}
    /\ \E ok \in BOOLEAN : \E n \in 1 .. MaxMessages :
          test_page' = LoadMetricsEvery5Sec(test_page, ok, n)
    /\ UNCHANGED beside_test_page

\* an interval fires, 5 seconds after it was set or last fired
IntervalFires(id) ==
    /\ id \in test_page.intervals
    /\ \E ok \in BOOLEAN : \E n \in 1 .. MaxMessages :
          test_page' = IntervalCallback(test_page, id, ok, n)
    /\ UNCHANGED beside_test_page

Next ==
    \/ WeatherPhase
    \/ UpdateHouseholds
    \/ UpdateRoles
    \/ FormMarket
    \/ MatchStep
    \/ UpdateMetrics
    \/ Publish

Spec == Init /\ [][Next]_vars

SpecEndToEnd == InitEndToEnd /\ [][Next]_vars

\* the WeatherEngine hour after hour
NextWeather == WeatherStep

SpecWeather == InitWeather /\ [][NextWeather]_vars

\* the dashboard's connection: sockets open, fail and close, the reconnect
\* interval fires, the server comes and goes
NextConnection ==
    \/ Start
    \/ \E throws \in BOOLEAN : ReconnectTick(throws)
    \/ \E k \in 1 .. MaxSockets : SocketOpens(k)
    \/ \E k \in 1 .. MaxSockets : SocketFails(k)
    \/ \E k \in 1 .. MaxSockets : SocketCloses(k)
    \/ ServerChanges

SpecConnection == InitDashboard /\ [][NextConnection]_vars

\* The event loop runs every task that stays ready: init() goes on to its
\* connectWebSocket call, the interval fires every 5 seconds for as long as
\* it is set, the browser settles every connection attempt; and the
\* creation of a socket does not throw every time it is tried.
FairSpecConnection ==
    /\ SpecConnection
    /\ WF_vars(Start)
    /\ WF_vars(\E throws \in BOOLEAN : ReconnectTick(throws))
    /\ SF_vars(ReconnectTick(FALSE))
    /\ \A k \in 1 .. MaxSockets : WF_vars(SocketOpens(k) \/ SocketFails(k))

\* the connected dashboard, sent weather
NextWeatherFeed == WeatherMessage

SpecWeatherFeed == InitWeatherFeed /\ [][NextWeatherFeed]_vars

\* the engine of the end-to-end scenario and the dashboard reading it
NextSnapshotFeed == Next \/ SnapshotMessage

SpecSnapshotFeed == InitSnapshotFeed /\ [][NextSnapshotFeed]_vars

\* the connected dashboard, sent trades
NextTradeFeed == TradeMessage

SpecTradeFeed == InitTradeFeed /\ [][NextTradeFeed]_vars

\* the connected dashboard, sent weather while the weather history loads
NextWeatherHistory == WeatherSample \/ HistoryLoads

SpecWeatherHistory == InitWeatherHistory /\ [][NextWeatherHistory]_vars

\* the connected dashboard, sent ticks while its fetches of /metrics return
NextMetricsFeed ==
    \/ TickMessage
    \/ \E n \in 1 .. MaxMessages : \E ok \in BOOLEAN : MetricsResponse(n, ok)

SpecMetricsFeed == InitMetricsFeed /\ [][NextMetricsFeed]_vars

\* the parameters modal of the connected dashboard
NextParameters == OpenModal \/ CloseModal \/ SetInput \/ Submit \/ Reset

SpecParameters == InitParameters /\ [][NextParameters]_vars

\* the metrics test page: clicks on Auto Update and the intervals they set
NextTestPage ==
    \/ TestPageLoads
    \/ ClickAutoUpdate
    \/ \E id \in 1 .. MaxIntervals : IntervalFires(id)

SpecTestPage == InitTestPage /\ [][NextTestPage]_vars

\* the demand adjustment on its own
NextAdjustment == AdjustDemands

SpecAdjustment == InitAdjustment /\ [][NextAdjustment]_vars

\* the metrics phase and the publication of what it computed
NextMetrics == UpdateMetrics \/ Publish

SpecMetrics == InitMetrics /\ [][NextMetrics]_vars

\* ------------------------------------------------------------------ claims

\* C1: in every state of every tick, after the battery update and after each
\* trade, every household's stored_energy_pct lies in [0, 100]; the same
\* holds of every published snapshot.
C1_StoredWithinRange ==
    /\ \A h \in Households :
          stored_energy_pct[h] >= 0 /\ stored_energy_pct[h] <= FULL
    /\ snapshot.timestamp > 0 =>
          \A h \in Households :
              /\ snapshot.households[h].stored_energy_pct >= 0
              /\ snapshot.households[h].stored_energy_pct <= FULL

\* a second tick has completed with trades, one battery full, one empty
C1_Witness ==
    /\ tick >= 2
    /\ pc = "weather"
    /\ snapshot.timestamp = tick
    /\ snapshot.trades # <<>>
    /\ \E h \in Households : stored_energy_pct[h] = FULL
    /\ \E h \in Households : stored_energy_pct[h] = 0

\* C2: during matching, after every executed trade, the seller of every trade
\* of the tick holds at least the minimum reserve and the buyer at most 100%;
\* the executed amount is the candidate reduced to what the seller can give
\* and the buyer can take, and it is at least min_trade_size.
C2_TradeKeepsReserveAndCeiling ==
    pc \in {"match", "publish"} =>
        /\ \A i \in 1 .. Len(trades) :
              /\ stored_energy_pct[trades[i].seller_id] >= MINIMUM_RESERVE
              /\ stored_energy_pct[trades[i].buyer_id] <= FULL
        /\ last.executed =>
              /\ last.kwh <= last.candidate
              /\ last.kwh >= min_trade_size

\* a trade was executed for less than the candidate amount and filled the
\* buyer's battery
C2_Witness ==
    /\ pc \in {"match", "publish"}
    /\ last.executed
    /\ last.kwh < last.candidate
    /\ stored_energy_pct[last.buyer] = FULL
    /\ stored_energy_pct[last.seller] > MINIMUM_RESERVE

\* C3: the kWh of all trades of the tick, all rounds together, never exceed
\* the supply nor the demand computed before the first round.
C3_TradedWithinSupplyAndDemand ==
    /\ TotalKwh(trades) <= supply
    /\ TotalKwh(trades) <= demand

\* the matching of a tick has ended after trades in several rounds
C3_Witness ==
    /\ pc = "publish"
    /\ Len(trades) >= 3
    /\ 2 * TotalKwh(trades) > demand
    /\ demand < supply

C5_IdleAt22SellerAt45 ==
    pc = "market" =>
        \A h \in Households :
            /\ stored_energy_pct[h] = 220 /\ net_energy[h] = 0 => role[h] = "idle"
            /\ stored_energy_pct[h] = 450 /\ net_energy[h] = 0 => role[h] = "seller"

\* C6 (as claimed): in every published snapshot the role of each household is
\* the value of the role rule on the snapshot's stored_energy_pct and
\* net_energy of that household.
C6_SnapshotRoleFollowsRule ==
    snapshot.timestamp > 0 =>
        \A h \in Households :
            snapshot.households[h].role =
                UpdateRole(snapshot.households[h].stored_energy_pct,
                           snapshot.households[h].net_energy)

\* C7: whenever the tick has demand > 0 its price is min_price for
\* supply/demand > 1.5, the midpoint of min_price and max_price for
\* 0.8 < supply/demand <= 1.5, and max_price for supply/demand <= 0.8.
C7_PriceTiers ==
    demand > 0 =>
        /\ 10 * supply > 15 * demand => price = min_price
        /\ 10 * supply > 8 * demand /\ 10 * supply <= 15 * demand =>
              2 * price = min_price + max_price
        /\ 10 * supply <= 8 * demand => price = max_price

\* a tick priced at the midpoint has traded
C7_Witness ==
    /\ pc = "publish"
    /\ trades # <<>>
    /\ 10 * supply > 8 * demand
    /\ 10 * supply <= 15 * demand
    /\ price = 15
    /\ price = trades[1].price

SellerSet == {seller_order[i] : i \in 1 .. Len(seller_order)}
BuyerSet == {buyer_order[i] : i \in 1 .. Len(buyer_order)}

C9_NoTradeBelowMinimum ==
    /\ [](\A i \in 1 .. Len(trades) : trades[i].kwh >= min_trade_size)
    /\ [][(pc = "match" /\ Attempt.kwh < min_trade_size) =>
            (stored_energy_pct' = stored_energy_pct /\ trades' = trades)]_vars

\* an attempt whose candidate was large enough was reduced below
\* min_trade_size and made no trade
C9_Witness ==
    /\ pc \in {"match", "publish"}
    /\ last.seller # 0
    /\ ~last.executed
    /\ last.candidate >= min_trade_size
    /\ last.kwh < min_trade_size
    /\ trades # <<>>

\* C10: the seller collection and the buyer collection of a tick are
\* disjoint, no trade has the same household on both sides, and no household
\* sells in one trade and buys in another trade of the same tick.
C10_SellersAndBuyersDisjoint ==
    /\ Sellers(stored_energy_pct, role) \cap Buyers(stored_energy_pct, role) = {}
    /\ SellerSet \cap BuyerSet = {}
    /\ \A i \in 1 .. Len(trades) :
          /\ trades[i].seller_id # trades[i].buyer_id
          /\ \A j \in 1 .. Len(trades) : trades[i].seller_id # trades[j].buyer_id

\* a tick has trades of two sellers, one of them with a deficit of its own
C10_Witness ==
    /\ pc = "publish"
    /\ \E i, j \in 1 .. Len(trades) :
          /\ trades[i].seller_id # trades[j].seller_id
          /\ net_energy[trades[i].seller_id] < 0

\* the tick's roles give no seller, or no buyer, or the buyers have no deficit
NoTradeTick ==
    \/ \A h \in Households : role[h] # "seller"
    \/ \A h \in Households : role[h] # "buyer"
    \/ \A h \in Households : role[h] = "buyer" => net_energy[h] >= 0

WalkPosition == (round * (Cardinality(Households) + 1) + bi) * (Cardinality(Households) + 1) + si

\* C12: the matching of a tick runs at most max_trading_rounds (3) rounds and
\* always terminates: the round counter never exceeds 3, the walk stays
\* within the two sorted lists and every step moves its position strictly
\* forward, so a matching ends after at most rounds x buyers x sellers
\* steps; a further round is started only if, after the round before, a
\* seller still has availability above the reserve and a buyer still has
\* remaining need, and the matching ends before the third round only when
\* one of the two is missing.
C12_AtMostThreeRoundsAndTermination ==
    /\ [](round <= max_trading_rounds)
    /\ [](IF pc = "match"
          THEN /\ round >= 1
               /\ bi \in 1 .. Len(buyer_order)
               /\ si \in 1 .. Len(seller_order)
          ELSE round = 0)
    /\ [][pc = "match" /\ pc' = "match" => WalkPosition' > WalkPosition]_vars
    /\ [][pc = "match" /\ round' # round /\ pc' = "match"
            => /\ round' = round + 1
               /\ \E x \in {seller_order[i] : i \in 1 .. Len(seller_order)} :
                     SellerAvailable(stored_energy_pct'[x], battery_size(x)) > 0
               /\ \E y \in {buyer_order[i] : i \in 1 .. Len(buyer_order)} :
                     need'[y] > 0]_vars
    /\ [][pc = "match" /\ pc' # "match"
            => \/ round = max_trading_rounds
               \/ \A x \in {seller_order[i] : i \in 1 .. Len(seller_order)} :
                     SellerAvailable(stored_energy_pct'[x], battery_size(x)) = 0
               \/ \A y \in {buyer_order[i] : i \in 1 .. Len(buyer_order)} :
                     need[y] = 0 \/ (y = last'.buyer /\ need[y] = last'.kwh)]_vars

\* a trade is made in the third round, with need and availability remaining
C12_Witness ==
    /\ pc = "match"
    /\ round = max_trading_rounds
    /\ last.executed
    /\ Len(trades) >= 3
    /\ \E h \in Households : need[h] > 0

\* the first matching round of the first tick is over
RoundOneOver ==
    /\ tick = 1
    /\ \/ pc = "match" /\ round >= 2
       \/ pc \in {"metrics", "publish"}

\* the first trade of the tick goes from H1 to H2 and is of at most 2.0 kWh
FirstTradeH1ToH2 ==
    /\ role[1] = "seller"
    /\ role[2] = "buyer"
    /\ trades # <<>>
    /\ trades[1].seller_id = 1
    /\ trades[1].buyer_id = 2
    /\ trades[1].kwh > 0
    /\ trades[1].kwh <= 200

\* C14, as stated: in the end-to-end scenario (H1 with 4 kW of solar, a
\* 10 kWh battery and 80% stored, H2 with no solar, a demand of 2 kWh and 10%
\* stored, at noon, without a crisis) H1 is Seller, H2 is Buyer, and after one
\* matching round there is a trade from H1 to H2 of at most 2.0 kWh priced at
\* the seller's-market tier, max_price (0.20).
C14_TradeAtSellersMarketPrice ==
    RoundOneOver => FirstTradeH1ToH2 /\ trades[1].price = max_price

\* C14, amended: in the end-to-end scenario H1 is Seller, H2 is Buyer, and
\* after one matching round there is a trade from H1 to H2 of at most 2.0 kWh
\* priced at the buyer's-market tier, min_price (0.10), supply being more than
\* 1.5 times demand; the trade raises H2's stored_energy_pct, which stays at
\* most 100, and lowers H1's, which stays at least 20.
C14_TradeAtBuyersMarketPrice ==
    /\ [](RoundOneOver
            => /\ FirstTradeH1ToH2
               /\ trades[1].price = min_price
               /\ supply * 10 > 15 * demand
               /\ stored_energy_pct[2] > 100
               /\ stored_energy_pct[2] <= FULL
               /\ stored_energy_pct[1] >= MINIMUM_RESERVE)
    /\ [][tick = 1 /\ pc = "match" /\ trades' # trades
            => /\ stored_energy_pct'[2] > stored_energy_pct[2]
               /\ stored_energy_pct'[2] <= FULL
               /\ stored_energy_pct'[1] < stored_energy_pct[1]
               /\ stored_energy_pct'[1] >= MINIMUM_RESERVE]_vars

\* the scenario's tick is published with one round-one trade from H1 to H2 of
\* 1 kWh at min_price that has filled H2's battery
C14_Witness ==
    /\ scenario = "end_to_end"
    /\ tick = 1
    /\ pc = "publish"
    /\ trades = <<[seller_id |-> 1, buyer_id |-> 2, kwh |-> 100,
                   price |-> min_price, timestamp |-> 1]>>
    /\ stored_energy_pct[2] = FULL
    /\ stored_energy_pct[1] < FULL

\* C15: at every tick the cumulative energy_traded is the previous tick's
\* value plus the sum of the kwh of the tick's trades, it never decreases
\* and it is the sum over the whole ledger; cost_savings is energy_traded x
\* 0.20 $/kWh (20 hundredths of a cent per 0.01 kWh) and co2_reduced is
\* energy_traded x 0.5 kg/kWh (5 g per 0.01 kWh).
C15_CumulativeTotals ==
    /\ [](/\ metrics.cost_savings = 20 * metrics.energy_traded
          /\ metrics.co2_reduced = 5 * metrics.energy_traded
          /\ (pc = "publish" => metrics.energy_traded = TotalKwh(ledger) + TotalKwh(trades))
          /\ (pc = "weather" => metrics.energy_traded = TotalKwh(ledger)))
    /\ [][pc = "metrics"
            => metrics'.energy_traded = metrics.energy_traded + TotalKwh(trades)]_vars
    /\ [][metrics'.energy_traded >= metrics.energy_traded]_vars
    /\ [][pc # "metrics" => metrics' = metrics]_vars

\* the second tick's metrics are computed, with trades in both ticks
C15_Witness ==
    /\ tick = 2
    /\ pc = "publish"
    /\ trades # <<>>
    /\ state_log[1].metrics.energy_traded > 0
    /\ metrics.energy_traded = state_log[1].metrics.energy_traded + TotalKwh(trades)

\* C16: the resilience score lies in [0, 100] at every tick, for every number
\* of households from 1 up, every number of buyers among them, every number
\* of trades and every combination of stored_energy_pct values in [0, 100];
\* so does the score of every published snapshot.
C16_ResilienceWithinRange ==
    /\ metrics.resilience >= 0
    /\ metrics.resilience <= 100 * 1000
    /\ snapshot.metrics.resilience >= 0
    /\ snapshot.metrics.resilience <= 100 * 1000

\* the score reaches 100 with full batteries, no buyer and more than five
\* trades, kept there by the caps
C16_Witness ==
    /\ scenario = "metrics"
    /\ pc = "publish"
    /\ Len(trades) > 5
    /\ \A h \in Households : stored_energy_pct[h] = FULL /\ role[h] # "buyer"
    /\ metrics.resilience = 100 * 1000

C19_ActiveOnlyWithinWindow ==
    \A c \in crises :
        /\ c.end_hour - c.start_hour \in Durations
        /\ c.start_hour <= hour
        /\ hour < c.end_hour

\* the phases of a tick in the order claimed; the matching phase is market
\* formation followed by the rounds
PhaseOrder == <<"weather", "household", "role", "market", "metrics", "publish">>
PhaseOf(p) == IF p = "match" THEN "market" ELSE p

TradeRecorded == pc = "match" /\ Len(trades') = Len(trades) + 1

\* C25: a trade of round 1 is at most 0.6 x the seller's availability, 0.8 x
\* the buyer's remaining need and 2.0 kWh; a trade of a later round at most
\* 0.4 x the availability, 0.6 x the need and 1.0 kWh; availability and need
\* are those of the moment of the trade (the state the step starts from).
C25_PerTradeCaps ==
    [][TradeRecorded =>
         LET t == trades'[Len(trades')]
             s == t.seller_id
             b == t.buyer_id
             available == ((stored_energy_pct[s] - 200) * battery_size(s)) \div 1000
         IN  IF round = 1
             THEN /\ 10 * t.kwh <= 6 * available
                  /\ 10 * t.kwh <= 8 * need[b]
                  /\ t.kwh <= 200
             ELSE /\ 10 * t.kwh <= 4 * available
                  /\ 10 * t.kwh <= 6 * need[b]
                  /\ t.kwh <= 100]_vars

\* a trade made in a round after the first (the step before was an attempt
\* of this round, and it made a trade)
C25_Witness ==
    /\ pc = "match"
    /\ round >= 2
    /\ si >= 2
    /\ last.executed

\* ------------------------------------------------------------------------
\* C26: the battery update stores exactly min(net_energy, (100 - stored) /
\* 100 x battery_size) kWh of a surplus, draws exactly min(|net_energy|,
\* stored / 100 x battery_size) kWh for a deficit, and leaves the battery
\* alone when net_energy is 0.  (Both sides are multiplied by 1000, so that
\* a percentage point times a battery size is compared with kWh exactly.)
C26_BatteryUpdateExact ==
    [][pc = "household" /\ pc' = "role" =>
         \A h \in Households :
            LET before == stored_energy_pct[h]
                after == stored_energy_pct'[h]
                net == net_energy'[h]
                battery == battery_size(h)
            IN  /\ net > 0 =>
                      (after - before) * battery
                         = Min(1000 * net, (1000 - before) * battery)
                /\ net < 0 =>
                      (before - after) * battery
                         = Min(1000 * (-net), before * battery)
                /\ net = 0 => after = before]_vars

\* after a battery update: one household whose surplus was more than the
\* battery could take (the rest is lost), one whose deficit was more than
\* the battery held (the rest is unmet), and one with net_energy = 0
C26_Witness ==
    /\ pc = "role"
    /\ \E h \in Households :
          /\ net_energy[h] > 0
          /\ stored_energy_pct[h] = FULL
          /\ KwhOf(FULL - 800, battery_size(h)) < net_energy[h]
    /\ \E h \in Households :
          /\ net_energy[h] < 0
          /\ stored_energy_pct[h] = 0
    /\ \E h \in Households : net_energy[h] = 0

\* ------------------------------------------------------------------------
\* C28: a trade of amount a takes exactly a kWh out of the seller's battery
\* and puts exactly a kWh into the buyer's, so the kWh stored in the
\* community are what they were; every other household's stored_energy_pct,
\* and every household's role and net_energy, are unchanged.
C28_TradeMovesEnergyBetweenTwo ==
    [][TradeRecorded =>
         LET t == trades'[Len(trades')]
             s == t.seller_id
             b == t.buyer_id
             kwh == [h \in Households |-> stored_energy_pct[h] * battery_size(h)]
             kwh_after == [h \in Households |-> stored_energy_pct'[h] * battery_size(h)]
         IN  /\ s # b
             /\ kwh[s] - kwh_after[s] = 1000 * t.kwh
             /\ kwh_after[b] - kwh[b] = 1000 * t.kwh
             /\ SumOver(kwh_after, Households) = SumOver(kwh, Households)
             /\ \A h \in Households \ {s, b} :
                   stored_energy_pct'[h] = stored_energy_pct[h]
             /\ role' = role
             /\ net_energy' = net_energy]_vars

\* a trade has just been made between two batteries of different sizes: the
\* same kWh are a different number of percentage points on either side
C28_Witness ==
    /\ pc = "match"
    /\ last.executed
    /\ PctOf(last.kwh, battery_size(last.seller))
          # PctOf(last.kwh, battery_size(last.buyer))
    /\ Cardinality(Households \ {last.seller, last.buyer}) = 1

\* ------------------------------------------------------------------------
\* C24 (as stated): whenever a round makes a trade, its first trade is
\* between the seller of the highest stored_energy_pct among the sellers with
\* availability and the buyer of the lowest stored_energy_pct (then of the
\* highest deficit).
C24_FirstTradeBetweenFirstRanked ==
    [][TradeRecorded /\ round_trades = 0 =>
         LET t == trades'[Len(trades')]
             available == {x \in SellerSet :
                             stored_energy_pct[x] > MINIMUM_RESERVE}
         IN  /\ \A x \in available :
                   stored_energy_pct[x] <= stored_energy_pct[t.seller_id]
             /\ \A y \in BuyerSet :
                   \/ stored_energy_pct[y] > stored_energy_pct[t.buyer_id]
                   \/ /\ stored_energy_pct[y] = stored_energy_pct[t.buyer_id]
                      /\ Abs(net_energy[y]) <= Abs(net_energy[t.buyer_id])]_vars

\* what the buyer at rank i and the seller at rank j could trade in the
\* current state
AmountFor(i, j) ==
    LET b == buyer_order[i]
        s == seller_order[j]
        seller_available_kwh == SellerAvailable(stored_energy_pct[s], battery_size(s))
    IN  Feasible(Candidate(round, seller_available_kwh, need[b]),
                 seller_available_kwh,
                 BuyerHeadroom(stored_energy_pct[b], battery_size(b)))

\* the walk's orders are those of the state: sellers by descending
\* stored_energy_pct, buyers by ascending stored_energy_pct and, among equal
\* ones, by descending |net_energy|
OrdersOfCurrentState ==
    /\ \A i, j \in 1 .. Len(seller_order) :
          i < j => stored_energy_pct[seller_order[i]] >= stored_energy_pct[seller_order[j]]
    /\ \A i, j \in 1 .. Len(buyer_order) :
          i < j => \/ stored_energy_pct[buyer_order[i]] < stored_energy_pct[buyer_order[j]]
                   \/ /\ stored_energy_pct[buyer_order[i]] = stored_energy_pct[buyer_order[j]]
                      /\ Abs(net_energy[buyer_order[i]]) >= Abs(net_energy[buyer_order[j]])

\* C24 (amended): until a round has made a trade, its orders are those of
\* the current state (they are recomputed at the start of every round), and
\* the round's first trade is made by the first pair of the walk (buyers in
\* their order, for each buyer the sellers in theirs) whose amount reaches
\* min_trade_size: every pair before it was tried and could not trade.
C24_FirstTradeIsFirstTradablePair ==
    /\ [](pc = "match" /\ round_trades = 0 => OrdersOfCurrentState)
    /\ [][TradeRecorded /\ round_trades = 0 =>
            LET t == trades'[Len(trades')]
            IN  /\ t.buyer_id = buyer_order[bi]
                /\ t.seller_id = seller_order[si]
                /\ \A i \in 1 .. bi, j \in 1 .. Len(seller_order) :
                      (i < bi \/ j < si) => AmountFor(i, j) < min_trade_size]_vars

\* a later round has walked past its first buyer, whose remaining need is
\* too small to trade, and makes its first trade with the second
C24_Witness ==
    /\ pc = "match"
    /\ round >= 2
    /\ round_trades = 0
    /\ bi = 2
    /\ need[buyer_order[1]] > 0
    /\ Tradable(AmountFor(bi, si))

\* ------------------------------------------------------------------------
\* a socket's open event, and a call of connectWebSocket by the reconnect
\* interval
OpenEvent ==
    \E k \in 1 .. MaxSockets :
        browser.sockets[k] = "connecting" /\ browser'.sockets[k] = "open"
ReconnectAttempt == ~browser.init_pending /\ browser'.attempts # browser.attempts

\* the dashboard is connected: its flag says so, or a WebSocket it has
\* created is open
Connected ==
    \/ dashboard.isConnected
    \/ \E k \in 1 .. MaxSockets : browser.sockets[k] = "open"

\* C29: at most one reconnect interval exists, and it is the one held in
\* reconnectInterval; whenever a WebSocket opens the interval is cleared and
\* reconnectInterval is null again; no reconnect attempt is made while the
\* dashboard is connected.
C29_ReconnectGuard ==
    /\ [](/\ Cardinality(browser.timers) <= 1
          /\ browser.timers = IF dashboard.reconnectInterval = null
                               THEN {} ELSE {dashboard.reconnectInterval})
    /\ [][OpenEvent => /\ browser'.timers = {}
                       /\ dashboard'.reconnectInterval = null]_vars
    /\ [][ReconnectAttempt => ~Connected]_vars

\* ------------------------------------------------------------------------
\* C30: after every close of a WebSocket, and after every failure to create
\* one, a new connection attempt is eventually made unless a connection
\* opens first; the reconnect interval, once set, is cleared by nothing but
\* the open event of a socket, so the attempts go on until a connection
\* opens; and while the server is reachable the dashboard eventually is
\* connected.
C30_ReconnectsUntilConnected ==
    /\ \A p \in {0, 1} :
          (browser.last_event \in {"close", "throw"} /\ browser.attempts = p)
             ~> (browser.attempts # p \/ browser.last_event = "open")
    /\ [][browser.timers # {} /\ browser'.timers = {} => OpenEvent]_vars
    /\ browser.reachable ~> (dashboard.isConnected \/ ~browser.reachable)

\* a socket created by a reconnect attempt has opened and the dashboard is
\* connected again
C30_Witness ==
    /\ browser.last_event = "open"
    /\ browser.attempts = 0
    /\ browser.reachable
    /\ dashboard.isConnected
    /\ dashboard.reconnectInterval = null

\* ------------------------------------------------------------------------
\* what is to be shown for a weather field: the number received or, when the
\* field is missing or is not a number, the documented default
Substituted(value, default) == IF value.kind = "number" THEN value ELSE default

\* C23: a message whose weather fields are missing or malformed is handled
\* to the end, and the documented defaults (temp 22.5, solar_radiation 0,
\* clouds 30, humidity 65) stand in for those fields, on the weather panel
\* and in the point added to the charts; the next message is handled too.
C23_WeatherDefaultsSubstituted ==
    LET weather == browser.message.weather
        point == dashboard.weatherData[Len(dashboard.weatherData)]
    IN  /\ dashboard.lastUpdateTime = browser.message.timestamp
        /\ browser.delivered > 0 /\ weather.present =>
              /\ dashboard.temperature = Substituted(weather.temp, Num(225))
              /\ dashboard.solarRadiation
                    = ToFixed0(Substituted(weather.solar_radiation, Num(0)))
              /\ dashboard.cloudCover = ToFixed0(Substituted(weather.clouds, Num(300)))
              /\ dashboard.humidity = ToFixed0(Substituted(weather.humidity, Num(650)))
              /\ point.solar_radiation = Substituted(weather.solar_radiation, Num(0))
              /\ point.temperature = Substituted(weather.temp, Num(225))

\* ------------------------------------------------------------------------
\* the kWh household h bought and sold in a trade list
Bought(ts, h) == TotalKwh(SelectSeq(ts, LAMBDA t : t.buyer_id = h))
Sold(ts, h) == TotalKwh(SelectSeq(ts, LAMBDA t : t.seller_id = h))

\* the k-th published tick is a whole tick: for every household the battery
\* update of the tick and every trade of the tick's list, on the side of the
\* household, have been applied to what the tick before had published (the
\* end-to-end scenario starts from 80% and 10%)
WholeTick(k) ==
    \A h \in DOMAIN state_log[k].households :
        LET entry == state_log[k].households[h]
            before == IF k = 1 THEN (IF h = 1 THEN 800 ELSE 100)
                      ELSE state_log[k - 1].households[h].stored_energy_pct
            battery == battery_size(h)
        IN  entry.stored_energy_pct
               = UpdateBattery(before, entry.net_energy, battery)
                   + PctOf(Bought(state_log[k].trades, h), battery)
                   - PctOf(Sold(state_log[k].trades, h), battery)

Adjusting == scenario = "adjustment" /\ pc = "weather" /\ pc' = "household"

\* the number of households of the set among that come before h by demand,
\* from the highest and from the lowest
HigherAmong(among, h) ==
    Cardinality({g \in among :
        \/ household[g].energy_demand > household[h].energy_demand
        \/ household[g].energy_demand = household[h].energy_demand /\ g < h})
LowerAmong(among, h) ==
    Cardinality({g \in among :
        \/ household[g].energy_demand < household[h].energy_demand
        \/ household[g].energy_demand = household[h].energy_demand /\ g < h})

\* the community has no seller and a buyer, or no buyer and a seller
DeficitNow ==
    /\ \A h \in Households : role[h] # "seller"
    /\ \E h \in Households : role[h] = "buyer"
SurplusNow ==
    /\ \A h \in Households : role[h] # "buyer"
    /\ \E h \in Households : role[h] = "seller"

\* the households whose demand the step changes
Changed == {h \in Households : household'[h].energy_demand # household[h].energy_demand}

\* C27 (as stated): with no seller and a buyer, the two highest-demand
\* households that are not hoarders are selected and a selected one is
\* reduced by 15% if it is energy_conscious; with no buyer and a seller, the
\* two lowest-demand households that are not hoarders are raised by 10%;
\* every other demand is unchanged, at most two are adjusted and a hoarder
\* is never selected.
C27_TwoNonHoardersAdjusted ==
    [][Adjusting =>
         LET candidates == {h \in Households : ~household[h].energy_hoarder}
         IN  /\ \A h \in Households :
                   household'[h].energy_demand =
                      IF /\ DeficitNow
                         /\ h \in candidates
                         /\ HigherAmong(candidates, h) < 2
                         /\ household[h].energy_conscious
                      THEN (household[h].energy_demand * 85) \div 100
                      ELSE IF /\ SurplusNow
                              /\ h \in candidates
                              /\ LowerAmong(candidates, h) < 2
                      THEN (household[h].energy_demand * 110) \div 100
                      ELSE household[h].energy_demand
             /\ Cardinality(Changed) <= 2
             /\ \A h \in Changed : ~household[h].energy_hoarder]_vars

\* C27 (amended): the two highest-demand, or the two lowest-demand,
\* households are selected among all households; a selected household is
\* reduced by 15% if it is energy_conscious (a hoarder too), or raised by
\* 10% if it is not a hoarder; every other demand is unchanged, at most two
\* are adjusted, and the demand of a hoarder is never raised.
C27_TwoOfAllSelected ==
    [][Adjusting =>
         /\ \A h \in Households :
               household'[h].energy_demand =
                  IF /\ DeficitNow
                     /\ HigherAmong(Households, h) < 2
                     /\ household[h].energy_conscious
                  THEN (household[h].energy_demand * 85) \div 100
                  ELSE IF /\ SurplusNow
                          /\ LowerAmong(Households, h) < 2
                          /\ ~household[h].energy_hoarder
                  THEN (household[h].energy_demand * 110) \div 100
                  ELSE household[h].energy_demand
         /\ Cardinality(Changed) <= 2
         /\ \A h \in Changed :
               household[h].energy_hoarder
                  => household'[h].energy_demand < household[h].energy_demand
         /\ \A h \in Households :
               /\ household'[h].energy_conscious = household[h].energy_conscious
               /\ household'[h].energy_hoarder = household[h].energy_hoarder]_vars

\* after an adjustment in a surplus: household 1 (lowest demand) was raised
\* from 1.00 to 1.10 kWh, household 3 (second lowest, a hoarder) was
\* selected and left alone, and household 2 (third, not a hoarder) was not
\* raised in its place
C27_Witness ==
    /\ scenario = "adjustment"
    /\ pc = "household"
    /\ SurplusNow
    /\ household[1].energy_demand = 110
    /\ household[3].energy_demand = 120 /\ household[3].energy_hoarder
    /\ household[2].energy_demand = 140 /\ ~household[2].energy_hoarder

\* ------------------------------------------------------------------------
\* the socket held in this.websocket is open; the sockets that are open
HeldOpen ==
    /\ dashboard.websocket # null
    /\ browser.sockets[dashboard.websocket] = "open"
OpenSockets == {k \in 1 .. MaxSockets : browser.sockets[k] = "open"}

\* the close (or error and close) event of a socket other than the one
\* held in this.websocket
StaleSocketEnds ==
    \E k \in 1 .. MaxSockets :
        /\ k # dashboard.websocket
        /\ browser.sockets[k] # "none"
        /\ browser'.sockets[k] = "none"

\* C31: isConnected, and the status shown, is true exactly when the socket
\* held in this.websocket is open; the close or error event of an older
\* socket neither marks the dashboard disconnected nor starts reconnecting
\* while a newer socket is open; at most one socket created by the dashboard
\* is open at a time.
C31_StatusFollowsHeldSocket ==
    /\ [](dashboard.isConnected <=> HeldOpen)
    /\ [](dashboard.connectionStatus = "Connected" <=> dashboard.isConnected)
    /\ [][StaleSocketEnds /\ HeldOpen =>
             /\ dashboard'.isConnected
             /\ browser'.timers = browser.timers]_vars
    /\ [](Cardinality(OpenSockets) <= 1)

\* ------------------------------------------------------------------------
\* the activity log's entries made of a trade
EntriesOf(trade) ==
    {i \in DOMAIN dashboard.activityLog : dashboard.activityLog[i].trade = trade}

\* C32: every trade of a received message is recorded in the activity log
\* exactly once: it is added when it was not logged, two different trades of
\* one tick are both added, and a trade delivered again adds nothing, in the
\* documented wire format as well as in the ledger format.
C32_EachTradeLoggedOnce ==
    \A i \in DOMAIN browser.message.trades :
        Cardinality(EntriesOf(browser.message.trades[i])) = 1

\* ------------------------------------------------------------------------
\* the place of a trade in the message just handled
PlaceInMessage(trade) ==
    CHOOSE i \in DOMAIN browser'.message.trades : browser'.message.trades[i] = trade

\* the log after a call of updateTrades: count new entries, made of trades of
\* the message with a later trade before an earlier one, then the entries
\* the log had, from its newest on and in the order they had
NewestFirst(count) ==
    LET old == dashboard.activityLog
        new == dashboard'.activityLog
    IN  /\ Len(new) = Min(maxActivities, Len(old) + count)
        /\ \A i \in 1 .. count :
              \E k \in DOMAIN browser'.message.trades : new[i].trade = browser'.message.trades[k]
        /\ \A i \in 1 .. count : \A j \in 1 .. count :
              i < j => PlaceInMessage(new[i].trade) > PlaceInMessage(new[j].trade)
        /\ \A i \in count + 1 .. Len(new) : new[i] = old[i - count]

\* C33: after any sequence of updateTrades calls the activity log holds at
\* most 50 entries, newest first, and when the bound is exceeded it is the
\* oldest entries that are discarded.
C33_LogBoundedNewestFirst ==
    /\ [](Len(dashboard.activityLog) <= maxActivities)
    /\ [](\A i \in DOMAIN dashboard.activityLog : \A j \in DOMAIN dashboard.activityLog :
             /\ i < j
             /\ dashboard.activityLog[i].timestamp.kind = "Date"
             /\ dashboard.activityLog[j].timestamp.kind = "Date"
             => dashboard.activityLog[i].timestamp.value >= dashboard.activityLog[j].timestamp.value)
    /\ [][\E count \in 0 .. Len(dashboard'.activityLog) : NewestFirst(count)]_vars

\* the log is full, its first entry is of the message just handled and the
\* oldest of the earlier entries is gone
C33_Witness ==
    /\ Len(dashboard.activityLog) = maxActivities
    /\ browser.message.trades # <<>>
    /\ dashboard.activityLog[1].trade = browser.message.trades[Len(browser.message.trades)]
    /\ dashboard.activityLog[maxActivities].timestamp.kind = "Date"
    /\ dashboard.activityLog[maxActivities].timestamp.value > 1

\* ------------------------------------------------------------------------
\* a message with weather has been handled: updateWeatherCharts was called
WeatherHandled ==
    /\ browser'.delivered # browser.delivered
    /\ browser'.message.weather.present

\* a chart shows the points of weatherData: their timestamps as labels, the
\* named value of each as data
Shows(chart, value) ==
    /\ chart.labels = [i \in DOMAIN dashboard.weatherData |-> dashboard.weatherData[i].timestamp]
    /\ chart.data = [i \in DOMAIN dashboard.weatherData |-> dashboard.weatherData[i][value]]

\* C34: after any sequence of updateWeatherCharts calls weatherData holds at
\* most 24 points, the most recently received ones in arrival order, and
\* both weather charts show exactly the points of weatherData.
C34_LastDayOfWeather ==
    /\ [](Len(dashboard.weatherData) <= maxDataPoints)
    /\ [](/\ Shows(dashboard.solarRadiationChart, "solar_radiation")
          /\ Shows(dashboard.temperatureChart, "temperature"))
    /\ [][WeatherHandled =>
            LET received == Append(dashboard.weatherData,
                                   WeatherPoint(browser'.message.weather,
                                                browser'.message.timestamp))
                kept == dashboard'.weatherData
                dropped == Len(received) - Len(kept)
            IN  /\ Len(kept) = Min(maxDataPoints, Len(received))
                /\ \A i \in DOMAIN kept : kept[i] = received[i + dropped]]_vars

\* the 25th point has arrived: the charts show 24 points, the last is the one
\* just received and the first received is gone
C34_Witness ==
    /\ browser.delivered >= 1
    /\ browser.message.weather.present
    /\ Len(dashboard.weatherData) = maxDataPoints
    /\ Len(dashboard.solarRadiationChart.data) = maxDataPoints
    /\ dashboard.weatherData[maxDataPoints].timestamp = browser.now
    /\ dashboard.weatherData[1] = EarlierPoints(maxDataPoints - 1)[2]

\* ------------------------------------------------------------------------
\* C35: a sample appended to weatherData stays in weatherData until 24 newer
\* samples have arrived, however the messages and the completion of the
\* loadInitialWeatherData fetch interleave.
C35_LiveSamplesKept ==
    [][\A i \in DOMAIN dashboard.weatherData :
          \/ \E j \in DOMAIN dashboard'.weatherData :
                dashboard'.weatherData[j] = dashboard.weatherData[i]
          \/ /\ WeatherHandled
             /\ Len(dashboard.weatherData) - i + 1 >= maxDataPoints]_vars

\* ------------------------------------------------------------------------
\* the fetch of /metrics issued for the n-th message is answered OK
AnsweredOK(n) == browser.fetches[n] = "pending" /\ browser'.fetches[n] = "ok"

\* C36: each message triggers a fetch of /metrics; once all outstanding
\* fetches have completed the metrics shown are those returned by the fetch
\* issued for the most recent message; a response to an earlier fetch never
\* overwrites the result of a later one.
C36_MetricsNeverStale ==
    /\ [][browser'.delivered # browser.delivered =>
             browser'.fetches[Len(browser'.fetches)] = "pending"]_vars
    /\ [](LET latest == Len(browser.fetches)
          IN  /\ latest > 0
              /\ \A n \in 1 .. latest : browser.fetches[n] # "pending"
              /\ browser.fetches[latest] = "ok"
              => dashboard.metrics =
                    UpdateMetricsPanel(dashboard, ServerMetrics(latest)).metrics)
    /\ [][\A n \in DOMAIN browser.fetches :
             AnsweredOK(n) => \A later \in DOMAIN browser.fetches :
                                 later > n => browser.fetches[later] # "ok"]_vars

\* ------------------------------------------------------------------------
\* the activity the submission records
ActivityRecorded ==
    /\ dashboard.activityLog # <<>>
    /\ dashboard.activityLog[1].type = "simulation"

\* C37: when the server answers OK to the POST of the parameters the modal
\* is closed, a 'Custom simulation parameters applied' activity is recorded
\* and no failure alert is shown; the failure alert is shown only when the
\* request fails or the server answers non-OK.
C37_SubmitEndsInSuccess ==
    browser.last_event = "submit" =>
        /\ browser.response = "ok" =>
              /\ dashboard.modal = "hidden"
              /\ ActivityRecorded
              /\ browser.alert = "none"
        /\ browser.alert # "none" => browser.response \in {"rejected", "not_ok"}

\* ------------------------------------------------------------------------
\* C38: every household configuration the parameter form submits satisfies
\* the HouseholdConfig invariants, for every value the form controls allow:
\* solar_capacity > 0, battery_size > 0 and 0 <= initial_battery_level <= 1
\* (values in tenths).
C38_SubmittedConfigValid ==
    browser.posted # NoParameters =>
        /\ browser.posted.solar_capacity.kind = "number"
        /\ browser.posted.solar_capacity.value > 0
        /\ browser.posted.battery_size.kind = "number"
        /\ browser.posted.battery_size.value > 0
        /\ browser.posted.initial_battery_level.kind = "number"
        /\ browser.posted.initial_battery_level.value >= 0
        /\ browser.posted.initial_battery_level.value <= 10

\* ------------------------------------------------------------------------
\* the interval id has fired while autoUpdate was false
FiresSwitchedOff(id) ==
    /\ id \in test_page.intervals
    /\ ~test_page.autoUpdate
    /\ test_page'.event.interval = id
    /\ test_page'.event.kind \in {"cleared", "polled"}

\* C39: after any sequence of clicks on Auto Update at most one polling
\* interval is active, and once autoUpdate is false no interval polls
\* /metrics beyond its next firing.
C39_OnePollingInterval ==
    /\ [](Cardinality(test_page.intervals) <= 1)
    /\ [][\A id \in 1 .. MaxIntervals :
             FiresSwitchedOff(id) => /\ id \notin test_page'.intervals
                                     /\ test_page'.polls = test_page.polls]_vars

====
